---- MODULE Spec2Model ----
(***************************************************************************)
(* Optimus Echo Predictor: a model of the frontend's stateful components.  *)
(*                                                                         *)
(*   WebcamGesture  (live gesture buffer, camera, ESN analysis trigger)    *)
(*   LiveDetection  (parent page of WebcamGesture)                         *)
(*   Dashboard      (alerts panel, acknowledge, refresh)                   *)
(*   ScenarioBuilder (create-scenario form, scenario list)                 *)
(*   App/Layout/Landing (routes and navigation)                            *)
(*   DataUpload     (uploadFile)                                           *)
(*   Settings       (the Data & Refresh card)                              *)
(*   the backend's risk scoring engine and gesture encoder                 *)
(*                                                                         *)
(* React state is modelled as variables; a callback that closes over a     *)
(* render's state carries the captured value with it.  Fractions are kept  *)
(* as integers: positions and slider values in tenths, confidence in       *)
(* percent.                                                                *)
(***************************************************************************)
EXTENDS Integers, Sequences, FiniteSets, TLC

(***************************************************************************)
(* Bounds of the model.                                                    *)
(***************************************************************************)
\* frames of a video detectGestures is applied to (the buffer overflows past 50)
MaxFrames == 56
\* frames of a video processed before Analyze via ESN is looked at
MaxAnalyzeFrames == 11
\* invocations of analyzeGestureHistory in one run
MaxAnalyses == 2
\* getUserMedia requests in one run
MaxStarts == 2
\* alerts the server holds when the dashboard is opened
NumAlerts == 2
\* dashboard requests (fetches and acknowledges) in one run
MaxRequests == 4
\* characters of a typed scenario name
MaxNameLen == 1
\* edits (slider moves, selections, typing) made to the form in one run
MaxFormEdits == 1
\* POST /scenarios requests in one run
MaxCreates == 1
\* entries of the browser's history stack
MaxHistoryDepth == 4
\* runPrediction requests in flight
MaxPredictions == 1
\* runPrediction requests in flight when predictions overlap
MaxOverlapping == 3
\* mounts of the ScenarioBuilder page in one run
MaxMounts == 2
\* DELETE /scenarios requests in one run
MaxDeletes == 1
\* samples in a buffer handed to the sequence path of the scoring engine
MaxBufferLen == 12
\* calls of uploadFile in one run
MaxUploads == 2
\* seconds the Dashboard is watched after a fetch
MaxIdleSeconds == 40
\* the step of the clock, in seconds
TickSeconds == 10

(***************************************************************************)
(* WebcamGesture: constants of the component.                              *)
(***************************************************************************)
\* [...prev, newGesture].slice(-50)
BufferSize == 50
\* if (gestureHistory.length < 10)
MinSamples == 10

\* The closed gesture vocabulary of a GestureSample.
GestureVocabulary ==
  {"stop", "proceed", "slow_down", "handover", "point", "wave", "emergency", "unknown"}

\* Own properties of the GESTURE_TYPE_MAP object literal.
GESTURE_TYPE_MAP ==
  [l \in {"Closed_Fist", "Open_Palm", "Pointing_Up", "Thumb_Up", "Thumb_Down",
          "Victory", "ILoveYou", "None"} |->
     CASE l = "Closed_Fist" -> "stop"
       [] l = "Open_Palm"   -> "stop"
       [] l = "Pointing_Up" -> "point"
       [] l = "Thumb_Up"    -> "proceed"
       [] l = "Thumb_Down"  -> "slow_down"
       [] l = "Victory"     -> "proceed"
       [] l = "ILoveYou"    -> "wave"
       [] l = "None"        -> "unknown"]

\* GESTURE_TYPE_MAP is a plain object literal, so a bracket lookup also finds
\* the members it inherits from Object.prototype; all of them are truthy.
ObjectPrototypeKeys ==
  {"constructor", "toString", "valueOf", "hasOwnProperty", "isPrototypeOf",
   "propertyIsEnumerable", "toLocaleString", "__proto__",
   "__defineGetter__", "__defineSetter__", "__lookupGetter__", "__lookupSetter__"}

\* The value an inherited member evaluates to (a function or the prototype
\* object), written as a tagged string.
InheritedMember(name) == "[Object.prototype." \o name \o "]"

\* GESTURE_TYPE_MAP[gestureName] || 'unknown'
GestureTypeOf(gestureName) ==
  IF gestureName \in DOMAIN GESTURE_TYPE_MAP THEN GESTURE_TYPE_MAP[gestureName]
  ELSE IF gestureName \in ObjectPrototypeKeys THEN InheritedMember(gestureName)
  ELSE "unknown"

\* { x: 0, y: 1, z: 0 } in tenths
DefaultPosition == [x |-> 0, y |-> 10, z |-> 0]

\* A hand landmark [x, y, z, zDefined] in tenths of the normalised frame.
\* x: lm.x * 4 - 2,  y: (1 - lm.y) * 2,  z: lm.z || 0
LandmarkPosition(lm) ==
  [x |-> (lm.x * 4) - 20,
   y |-> (10 - lm.y) * 2,
   z |-> IF lm.zDefined THEN lm.z ELSE 0]

\* Faulty variant, for sensitivity checks: no default position when the landmarker reports no hand.
PositionOfNoDefault(lms) ==
  IF Len(lms) > 0 THEN LandmarkPosition(lms[1]) ELSE <<>>

\* landmarkResults?.landmarks?.[0]?.[0] ? {...} : { x: 0, y: 1, z: 0 }
\* lms is the sequence of wrist landmarks the landmarker returned, one per
\* hand (empty when it found no hand or when there is no landmarker).
PositionOf(lms) ==
  IF Len(lms) > 0 THEN LandmarkPosition(lms[1]) ELSE DefaultPosition

\* const newGesture = { gesture_type, confidence, position, timestamp, source }
NewGesture(gestureName, score, lms, now) ==
  [gesture_type |-> GestureTypeOf(gestureName),
   confidence   |-> score,
   position     |-> PositionOf(lms),
   timestamp    |-> now,
   source       |-> "mediapipe_webcam"]

\* Faulty variant, for sensitivity checks: slice(0, n), the first n elements.
SliceFirst(s, n) ==
  IF Len(s) <= n THEN s ELSE SubSeq(s, 1, n)

\* s.slice(-n): the last n elements of s (all of s when it is shorter)
SliceLast(s, n) ==
  IF Len(s) <= n THEN s ELSE SubSeq(s, Len(s) - n + 1, Len(s))

\* Faulty variant, for sensitivity checks: the append without the slice.
AppendUnbounded(prev, g) == Append(prev, g)

\* [...prev, newGesture].slice(-50)
AppendBounded(prev, g) == SliceLast(Append(prev, g), BufferSize)

\* Faulty variant, for sensitivity checks: the guard off by one (length < 11).
TooFewSamplesOffByOne(h) == Len(h) < MinSamples + 1

\* gestureHistory.length < 10
TooFewSamples(h) == Len(h) < MinSamples


(***************************************************************************)
(* The external classifier.  What the recogniser and the hand landmarker   *)
(* return for a frame is an input of the component; a run plays one of a   *)
(* few recorded videos, so that long runs stay enumerable.                 *)
(***************************************************************************)
\* Labels a classifier may report: the eight of the bundled model, one that
\* has no mapping, and one that names an inherited member.
LabelSeq ==
  <<"Open_Palm", "Thumb_Up", "None", "Pointing_Up", "Unmapped_Label",
    "Thumb_Down", "Victory", "constructor", "ILoveYou", "Closed_Fist">>

Videos == {1, 2, 3}

\* gestureResults / landmarkResults for frame t of video v:
\*   recognized : gestureResults?.gestures?.length > 0
\*   label, score : gestures[0][0].categoryName, gestures[0][0].score (percent)
\*   landmarks  : landmarkResults.landmarks, the wrist point of each hand
Frame(v, t) ==
  CASE v = 1 ->
         [recognized |-> TRUE,
          label      |-> LabelSeq[(t % 10) + 1],
          score      |-> 40 + ((t * 7) % 60),
          landmarks  |-> <<[x |-> t % 11, y |-> (t * 3) % 11,
                            z |-> (t % 5) - 2, zDefined |-> (t % 4 # 3)]>>]
    [] v = 2 ->
         [recognized |-> (t % 3 # 2),
          label      |-> LabelSeq[((t * 3) % 10) + 1],
          score      |-> 95,
          landmarks  |-> IF t % 2 = 0 THEN <<>>
                         ELSE <<[x |-> 10 - (t % 11), y |-> t % 11,
                                 z |-> 0, zDefined |-> TRUE]>>]
    [] v = 3 ->
         [recognized |-> (t % 18 # 17),
          label      |-> IF t % 2 = 0 THEN "Open_Palm" ELSE "Thumb_Up",
          score      |-> IF t % 3 = 0 THEN 55 ELSE 90,
          landmarks  |-> <<[x |-> 5, y |-> 5, z |-> -1, zDefined |-> TRUE]>>]

(***************************************************************************)
(* State.                                                                  *)
(***************************************************************************)
VARIABLES
  \* ---- WebcamGesture
  webcamMounted,   \* whether the WebcamGesture instance is mounted
  initState,       \* MediaPipe: "loading" | "both" | "recognizerOnly" | "failed"
  isStreaming,     \* useState(false)
  mediaRequests,   \* pending getUserMedia promises: the isStreaming each startCamera call closed over
  starts,          \* streams handed out so far
  srcObject,       \* videoRef.current.srcObject: 0 (null) or a stream id
  liveTracks,      \* streams whose tracks have not been stopped
  onloadeddata,    \* videoRef.current.onloadeddata: [set, isStreaming captured by its detectGestures]
  videoLoaded,     \* video.readyState >= 2 for the current srcObject
  animationFrame,  \* the requestAnimationFrame callback: [pending, isStreaming captured]
  video,           \* which recorded video the camera shows
  clock,           \* frames the video has shown to detectGestures (performance.now / new Date())
  currentGesture,  \* useState(null)
  confidence,      \* useState(0)
  gestureHistory,  \* useState([])
  riskAnalysis,    \* useState(null): null or a response
  analyses,        \* analysis requests in flight: [id, payload]
  analyzeCalls,    \* invocations of analyzeGestureHistory
  riskUpdates,     \* calls of onRiskUpdate
  lastToast,       \* the last toast WebcamGesture raised: [kind, level]
  \* ---- LiveDetection
  latestGesture,   \* useState(null)
  robotState,      \* useState('idle')
  riskData,        \* useState(null)
  \* ---- Dashboard (and the alerts endpoints it talks to)
  serverUnacked,   \* alerts the server holds with acknowledged = false
  alerts,          \* useState([]): the unacknowledged alerts shown
  dashLoading,     \* useState(true)
  fetches,         \* fetchDashboardData calls in flight: [id, served, snapshot, failed, live]
  acks,            \* acknowledgeAlert calls in flight: [id, alertId, alerts captured, served, live]
  ackDone,         \* alerts whose acknowledge call has succeeded
  requests,        \* dashboard requests issued so far
  \* ---- ScenarioBuilder (create form)
  formData,        \* useState({...})
  isCreateOpen,    \* useState(false)
  creates,         \* createScenario calls in flight: [mount, id, scenarios captured]
  posts,           \* POST /scenarios requests made so far
  submitted,       \* the body createScenario posted last (<<>> before the first)
  formEdits,       \* edits made to the form in this run
  \* ---- ScenarioBuilder (scenario list) and the scenario endpoints
  scenarios,       \* useState([]): the scenarios shown, each [id, status]
  scenLoading,     \* useState(true)
  scenMount,       \* which mount of the component is the current one (0: never mounted)
  scenFetches,     \* fetchScenarios calls in flight: the mount each belongs to
  deletes,         \* deleteScenario calls in flight: [mount, id, scenarios captured]
  runningPrediction, \* useState(null): 0 (null) or a scenario id
  serverScenarios, \* the scenarios the server stores, each [id, status]
  serverPredicted, \* ids of the scenarios a prediction has been run against
  fetchedIds,      \* ids the current mount's fetch returned (history variable)
  createdOk,       \* ids whose create succeeded in the current mount (history variable)
  deletedOk,       \* ids whose delete succeeded in the current mount (history variable)
  \* ---- App / Layout / Landing
  history,         \* the browser's history stack of paths; its last entry is the location
  sidebarOpen,     \* Layout: useState(false)
  predictionsRunning, \* runPrediction calls in flight, in the order made: [mount, id]
  predLoading,     \* Predictions: useState(true): loading
  \* ---- Risk scoring engine and feature encoder (pure functions)
  input,           \* the argument of the call: [kind, ...]
  output,          \* null, or the result of the call
  \* ---- DataUpload
  uploadedFiles,   \* useState([]): the upload history, newest first
  uploadLoading,   \* useState(false): loading
  posted,          \* the files POSTed to /gestures/upload, in order
  uploading,       \* the POSTs not yet answered: [post: index into posted, live]
  uploadCalls,     \* the calls of uploadFile so far, each [file, toast]
  \* ---- Settings
  settings,        \* useState({...}): [autoRefresh, refreshInterval]
  \* ---- Dashboard's other data
  dashData,        \* kpis, riskData, errorRates, symbiosisTrend: 0 (the initial null
                   \* or []), or the fetch whose response each holds
  \* ---- Dashboard's clock
  sinceFetch       \* seconds since the Dashboard last called fetchDashboardData

webcamVars ==
  <<webcamMounted, initState, isStreaming, mediaRequests, starts, srcObject, liveTracks,
    onloadeddata, videoLoaded, animationFrame, video, clock, currentGesture,
    confidence, gestureHistory, riskAnalysis, analyses, analyzeCalls,
    riskUpdates, lastToast>>

liveVars == <<latestGesture, robotState, riskData>>

cameraVars ==
  <<webcamMounted, initState, isStreaming, mediaRequests, starts, srcObject, liveTracks,
    onloadeddata, videoLoaded, animationFrame>>

frameVars ==
  <<clock, currentGesture, confidence, gestureHistory, latestGesture,
    robotState>>

analysisVars ==
  <<riskAnalysis, analyses, analyzeCalls, riskUpdates, lastToast, riskData>>

\* JavaScript null, in a state slot that otherwise holds an object
Null == [null |-> TRUE]

NoToast == [kind |-> "none", level |-> "none"]

\* The camera side of a WebcamGesture that has just mounted.
InitCamera ==
  /\ webcamMounted = TRUE
  /\ initState = "loading"
  /\ isStreaming = FALSE
  /\ mediaRequests = <<>>
  /\ starts = 0
  /\ srcObject = 0
  /\ liveTracks = {}
  /\ onloadeddata = [set |-> FALSE, isStreaming |-> FALSE]
  /\ videoLoaded = FALSE
  /\ animationFrame = [pending |-> FALSE, isStreaming |-> FALSE]

\* The buffer, the analysis and the LiveDetection page at mount.
InitBuffer ==
  /\ clock = 0
  /\ currentGesture = "null"
  /\ confidence = 0
  /\ gestureHistory = <<>>
  /\ riskAnalysis = Null
  /\ analyses = {}
  /\ analyzeCalls = 0
  /\ riskUpdates = 0
  /\ lastToast = NoToast
  /\ latestGesture = Null
  /\ robotState = "idle"
  /\ riskData = Null

InitWebcam == InitCamera /\ InitBuffer


dashVars ==
  <<serverUnacked, alerts, dashLoading, fetches, acks, ackDone, requests, sinceFetch,
    dashData>>

formVars == <<formData, isCreateOpen, creates, posts, submitted, formEdits>>

scenVars ==
  <<scenarios, scenLoading, scenMount, scenFetches, deletes, runningPrediction,
    serverScenarios, serverPredicted, fetchedIds, createdOk, deletedOk>>

navVars == <<history, sidebarOpen, predictionsRunning, predLoading>>

engineVars == <<input, output>>

uploadVars == <<uploadedFiles, uploadLoading, posted, uploading, uploadCalls>>

settingsVars == <<settings>>

vars == <<webcamVars, liveVars, dashVars, formVars, scenVars, navVars, engineVars, uploadVars, settingsVars>>

\* the state of a ScenarioBuilder instance, set anew when the page is mounted
mountVars ==
  <<formData, isCreateOpen, scenarios, scenLoading, scenMount, scenFetches,
    runningPrediction, fetchedIds, createdOk, deletedOk>>

\* what a mount of the page leaves alone: calls in flight, counters, the server
callVars == <<creates, posts, submitted, formEdits, deletes>>
serverVars == <<serverScenarios, serverPredicted>>

otherThanWebcam == <<dashVars, formVars, scenVars, navVars, engineVars, uploadVars, settingsVars>>
otherThanDashboard == <<webcamVars, liveVars, formVars, scenVars, navVars, engineVars, uploadVars, settingsVars>>
otherThanForm == <<webcamVars, liveVars, dashVars, scenVars, navVars, engineVars, uploadVars, settingsVars>>
otherThanScenarioBuilder == <<webcamVars, liveVars, dashVars, engineVars, uploadVars, settingsVars>>
\* the state of the Dashboard, DataUpload, Settings and Predictions instances,
\* set anew when their page is mounted, and their calls in flight
pageVars ==
  <<alerts, dashLoading, fetches, acks, requests, sinceFetch, dashData, uploadedFiles,
    uploadLoading, uploading, settings, predLoading>>
\* what a change of page leaves alone: the alerts the server holds, the records
\* of what was acknowledged and uploaded
pageKept == <<serverUnacked, ackDone, posted, uploadCalls>>
otherThanNav == <<webcamVars, liveVars, pageKept, callVars, serverVars, engineVars>>
otherThanEngine ==
  <<webcamVars, liveVars, dashVars, formVars, scenVars, navVars, uploadVars, settingsVars>>
otherThanUpload ==
  <<webcamVars, liveVars, dashVars, formVars, scenVars, navVars, engineVars, settingsVars>>
otherThanSettings ==
  <<webcamVars, liveVars, dashVars, formVars, scenVars, navVars, engineVars, uploadVars>>

(***************************************************************************)
(* WebcamGesture: operations.                                              *)
(***************************************************************************)
\* initializeMediaPipe settles: both models, only the gesture recogniser (the
\* hand landmarker failed to load), or nothing.
InitializeMediaPipe ==
  /\ initState = "loading"
  /\ \E outcome \in {"both", "recognizerOnly", "failed"} :
       /\ initState' = outcome
       /\ lastToast' = IF outcome = "both"
                       THEN [kind |-> "success", level |-> "initialized"]
                       ELSE [kind |-> "error", level |-> "initialization"]
  /\ UNCHANGED <<webcamMounted, isStreaming, mediaRequests, starts, srcObject, liveTracks,
                 onloadeddata, videoLoaded, animationFrame, video>>
  /\ UNCHANGED <<frameVars, riskAnalysis, analyses, analyzeCalls, riskUpdates,
                 riskData>>
  /\ UNCHANGED otherThanWebcam

\* Start Camera (shown while !isStreaming, disabled while isLoading): the call
\* runs up to the await; its continuation keeps the isStreaming of this render.
StartCamera ==
  /\ webcamMounted
  /\ ~isStreaming
  /\ initState # "loading"
  /\ starts + Len(mediaRequests) < MaxStarts
  /\ mediaRequests' = Append(mediaRequests, isStreaming)
  /\ UNCHANGED <<webcamMounted, initState, isStreaming, starts, srcObject, liveTracks,
                 onloadeddata, videoLoaded, animationFrame, video>>
  /\ UNCHANGED <<frameVars, analysisVars>>
  /\ UNCHANGED otherThanWebcam

RemoveAt(s, i) == SubSeq(s, 1, i - 1) \o SubSeq(s, i + 1, Len(s))

\* getUserMedia resolves with a new stream, its tracks live.
\* if (videoRef.current): srcObject = stream and onloadeddata is installed;
\* videoRef.current is null once the component has unmounted.
StartCameraResolved ==
  /\ \E i \in 1..Len(mediaRequests) :
       /\ mediaRequests' = RemoveAt(mediaRequests, i)
       /\ onloadeddata' = IF webcamMounted
                          THEN [set |-> TRUE, isStreaming |-> mediaRequests[i]]
                          ELSE onloadeddata
  /\ starts' = starts + 1
  /\ liveTracks' = liveTracks \cup {starts + 1}
  /\ srcObject' = IF webcamMounted THEN starts + 1 ELSE srcObject
  /\ videoLoaded' = IF webcamMounted THEN FALSE ELSE videoLoaded
  /\ UNCHANGED <<webcamMounted, initState, isStreaming, animationFrame, video>>
  /\ UNCHANGED <<frameVars, analysisVars>>
  /\ UNCHANGED otherThanWebcam

\* getUserMedia rejects: the error is shown, nothing else changes.
StartCameraRejected ==
  /\ \E i \in 1..Len(mediaRequests) : mediaRequests' = RemoveAt(mediaRequests, i)
  /\ lastToast' = [kind |-> "error", level |-> "camera"]
  /\ UNCHANGED <<webcamMounted, initState, isStreaming, starts, srcObject, liveTracks,
                 onloadeddata, videoLoaded, animationFrame, video>>
  /\ UNCHANGED <<frameVars, riskAnalysis, analyses, analyzeCalls, riskUpdates,
                 riskData>>
  /\ UNCHANGED otherThanWebcam

\* getRobotStateDisplay: the keys of states
RobotStates ==
  {"idle", "stopped", "moving", "slowing", "following", "greeting", "receiving"}

\* Values robotState can hold that are not one of the strings above, written
\* as tagged strings: a String or Boolean wrapper object, the boolean false,
\* and the string Object.prototype.toString returns for undefined.
StringObject(s) == "[String: " \o s \o "]"
BooleanFalse == "false"
BooleanObjectFalse == "[Boolean: false]"
ObjectUndefined == "[object Undefined]"
\* The render in which React runs a state updater that throws.
RenderThrows == "[render throws TypeError]"

IsObjectValue(v) ==
  \/ v \in {StringObject(s) : s \in RobotStates \cup {ObjectUndefined}}
  \/ v \in {BooleanObjectFalse, InheritedMember("__proto__")}

\* setRobotState(f) with f a function inherited from Object.prototype: React
\* calls f(prev) as an updater, with this undefined.
\*   Object(prev)            wraps a primitive, returns an object as it is
\*   toString()              "[object Undefined]"
\*   isPrototypeOf(prev)     false for a primitive; ToObject(this) throws otherwise
\*   every other member      ToObject(this) throws
UpdaterResult(name, prev) ==
  CASE name = "constructor" ->
         IF IsObjectValue(prev) THEN prev
         ELSE IF prev = BooleanFalse THEN BooleanObjectFalse
         ELSE StringObject(prev)
    [] name = "toString" -> ObjectUndefined
    [] name = "isPrototypeOf" -> IF IsObjectValue(prev) THEN RenderThrows ELSE BooleanFalse
    [] OTHER -> RenderThrows

\* Faulty variant, for sensitivity checks: the lookup without || 'idle'.
RobotStateOfNoDefault(prev, gestureType) ==
  CASE gestureType = "stop"      -> "stopped"
    [] gestureType = "proceed"   -> "moving"
    [] gestureType = "slow_down" -> "slowing"
    [] gestureType = "point"     -> "following"
    [] gestureType = "wave"      -> "greeting"
    [] gestureType = "handover"  -> "receiving"
    [] OTHER                     -> "undefined"

\* handleGestureDetected: robotState after
\* setRobotState(stateMap[gesture.gesture_type] || 'idle'), prev being the
\* state before.  stateMap is an object literal too: a string naming a member
\* of Object.prototype finds that member, a function (run as an updater) or,
\* for __proto__, the prototype object; any other value, a non-string
\* included, finds nothing.
RobotStateOf(prev, gestureType) ==
  CASE gestureType = "stop"      -> "stopped"
    [] gestureType = "proceed"   -> "moving"
    [] gestureType = "slow_down" -> "slowing"
    [] gestureType = "point"     -> "following"
    [] gestureType = "wave"      -> "greeting"
    [] gestureType = "handover"  -> "receiving"
    [] gestureType = "__proto__" -> InheritedMember(gestureType)
    [] gestureType \in ObjectPrototypeKeys -> UpdaterResult(gestureType, prev)
    [] OTHER                     -> "idle"

\* The render that follows a state update shows the last 20 buffered samples
\* as {g.gesture_type.slice(0, 3)}: a gesture_type that is not a string (a
\* member inherited from Object.prototype) has no slice, and the render throws.
IsString(gestureType) ==
  gestureType \notin {InheritedMember(k) : k \in ObjectPrototypeKeys}

BufferRenderThrows(h) ==
  \E i \in 1..Len(h) : i > Len(h) - 20 /\ ~IsString(h[i].gesture_type)

\* One call of detectGestures and the render that follows it.  The call c is
\* what the callback reads:
\*   recognizer, landmarker : gestureRecognizerRef.current, handLandmarkerRef.current
\*   isStreaming            : the isStreaming of the render its closure belongs to
\*   ready                  : video.readyState >= 2
\*   frame, now             : what the recogniser and the landmarker return, the time
\*   currentGesture .. robotState : the state its setters, updaters and
\*                            onGestureDetected (handleGestureDetected) work on
\* The result is that state after the call, with
\*   scheduled : requestAnimationFrame(detectGestures) was reached
\*   processed : the frame was handed to the recogniser
\*   throws    : the render throws
DetectGesturesBody(c) ==
  LET kept == [scheduled |-> FALSE, processed |-> FALSE, throws |-> FALSE,
               currentGesture |-> c.currentGesture, confidence |-> c.confidence,
               gestureHistory |-> c.gestureHistory, latestGesture |-> c.latestGesture,
               robotState |-> c.robotState]
  IN IF ~c.recognizer \/ ~c.isStreaming
     THEN kept
     ELSE IF ~c.ready
     THEN [kept EXCEPT !.scheduled = TRUE]
     ELSE IF c.frame.recognized
     THEN LET g == NewGesture(c.frame.label, c.frame.score,
                              IF c.landmarker THEN c.frame.landmarks ELSE <<>>, c.now)
              updated == AppendBounded(c.gestureHistory, g)
              robot == RobotStateOf(c.robotState, g.gesture_type)
          IN [scheduled |-> TRUE, processed |-> TRUE,
              throws |-> BufferRenderThrows(updated) \/ robot = RenderThrows,
              currentGesture |-> c.frame.label, confidence |-> c.frame.score,
              gestureHistory |-> updated, latestGesture |-> g, robotState |-> robot]
     ELSE [kept EXCEPT !.scheduled = TRUE, !.processed = TRUE,
                       !.currentGesture = "None", !.confidence = 0]

\* The effect's cleanup: stopCamera() and cancelAnimationFrame.  Whether
\* videoRef.current is still attached when the cleanup of a passive effect
\* runs depends on the React version (from React 17 on the ref is detached
\* first), which the repository does not pin.  loaded is video.readyState >= 2
\* before the cleanup.
TreeUnmounts(loaded) ==
  /\ webcamMounted' = FALSE
  /\ \E refAttached \in BOOLEAN :
       IF refAttached /\ srcObject # 0
       THEN /\ liveTracks' = liveTracks \ {srcObject}
            /\ srcObject' = 0
            /\ videoLoaded' = FALSE
       ELSE /\ videoLoaded' = loaded
            /\ UNCHANGED <<liveTracks, srcObject>>
  /\ isStreaming' = FALSE
  /\ animationFrame' = [pending |-> FALSE, isStreaming |-> FALSE]

\* detectGestures() in the mounted component, called by a callback that closed
\* over isStreaming = captured while video.readyState >= 2 is ready.  When the
\* callback returns at its first line, pendingOnReturn is what stays
\* scheduled; streaming is isStreaming after the caller's own setIsStreaming.
\* A render that throws unmounts the whole tree: no error boundary is mounted.
DetectGestures(captured, ready, pendingOnReturn, streaming) ==
  LET r == DetectGesturesBody(
             [recognizer |-> initState \in {"both", "recognizerOnly"},
              landmarker |-> initState = "both",
              isStreaming |-> captured, ready |-> ready,
              frame |-> Frame(video, clock), now |-> clock,
              currentGesture |-> currentGesture, confidence |-> confidence,
              gestureHistory |-> gestureHistory, latestGesture |-> latestGesture,
              robotState |-> robotState])
  IN /\ clock' = IF r.processed THEN clock + 1 ELSE clock
     /\ currentGesture' = r.currentGesture
     /\ confidence' = r.confidence
     /\ gestureHistory' = r.gestureHistory
     /\ latestGesture' = r.latestGesture
     /\ robotState' = r.robotState
     /\ IF r.throws
        THEN TreeUnmounts(ready)
        ELSE /\ animationFrame' = IF r.scheduled
                                  THEN [pending |-> TRUE, isStreaming |-> captured]
                                  ELSE pendingOnReturn
             /\ isStreaming' = streaming
             /\ videoLoaded' = ready
             /\ UNCHANGED <<webcamMounted, srcObject, liveTracks>>

\* videoRef.current.onloadeddata: setIsStreaming(true); detectGestures()
LoadedData ==
  /\ webcamMounted
  /\ srcObject # 0
  /\ ~videoLoaded
  /\ onloadeddata.set
  /\ DetectGestures(onloadeddata.isStreaming, TRUE, animationFrame, TRUE)
  /\ UNCHANGED <<initState, mediaRequests, starts, onloadeddata, video>>
  /\ UNCHANGED analysisVars
  /\ UNCHANGED otherThanWebcam

\* The browser runs the scheduled animation-frame callback.
AnimationFrame ==
  /\ webcamMounted
  /\ animationFrame.pending
  /\ DetectGestures(animationFrame.isStreaming, videoLoaded,
                    [pending |-> FALSE, isStreaming |-> FALSE], isStreaming)
  /\ UNCHANGED <<initState, mediaRequests, starts, onloadeddata, video>>
  /\ UNCHANGED analysisVars
  /\ UNCHANGED otherThanWebcam

\* Stop Camera (shown while isStreaming)
StopCamera ==
  /\ webcamMounted
  /\ isStreaming
  /\ liveTracks' = IF srcObject # 0 THEN liveTracks \ {srcObject} ELSE liveTracks
  /\ srcObject' = 0
  /\ videoLoaded' = FALSE
  /\ isStreaming' = FALSE
  /\ animationFrame' = [pending |-> FALSE, isStreaming |-> FALSE]
  /\ UNCHANGED <<webcamMounted, initState, mediaRequests, starts, onloadeddata, video>>
  /\ UNCHANGED <<frameVars, analysisVars>>
  /\ UNCHANGED otherThanWebcam

\* The component unmounts (the page is left): the effect's cleanup runs.
Unmount ==
  /\ webcamMounted
  /\ TreeUnmounts(videoLoaded)
  /\ UNCHANGED <<initState, mediaRequests, starts, onloadeddata, video>>
  /\ UNCHANGED <<frameVars, analysisVars>>
  /\ UNCHANGED otherThanWebcam

\* Clear Buffer
ClearHistory ==
  /\ webcamMounted
  /\ gestureHistory' = <<>>
  /\ riskAnalysis' = Null
  /\ UNCHANGED cameraVars
  /\ UNCHANGED <<video, clock, currentGesture, confidence, latestGesture, robotState>>
  /\ UNCHANGED <<analyses, analyzeCalls, riskUpdates, lastToast, riskData>>
  /\ UNCHANGED otherThanWebcam


RiskLevels == {"low", "medium", "high", "critical"}

\* The toast analyzeGestureHistory raises for a response:
\* critical or high -> toast.error, anything else -> toast.success
ToastKind(riskLevel) ==
  IF riskLevel = "critical" \/ riskLevel = "high" THEN "error" ELSE "success"

\* LiveDetection, Risk Assessment card:
\* status = low ? 'online' : medium ? 'warning' : 'danger'
CardStatus(riskLevel) ==
  IF riskLevel = "low" THEN "online"
  ELSE IF riskLevel = "medium" THEN "warning"
  ELSE "danger"

\* The Analyze via ESN button: disabled={gestureHistory.length < 10}
AnalyzeDisabled(h) == Len(h) < MinSamples

\* analyzeGestureHistory, up to the await, on the buffer h of its render:
\* below ten samples the toast and return, else POST /gestures/analyze with
\* the buffer as its body (request is null when nothing is posted).
AnalyzeGestureHistoryBody(h) ==
  IF TooFewSamples(h)
  THEN [toast |-> [kind |-> "error", level |-> "insufficient"], request |-> Null]
  ELSE [toast |-> NoToast, request |-> [gestures |-> h]]

\* A click on Analyze via ESN, the only caller of analyzeGestureHistory.
AnalyzeGestureHistory ==
  /\ webcamMounted
  /\ ~AnalyzeDisabled(gestureHistory)
  /\ analyzeCalls < MaxAnalyses
  /\ analyzeCalls' = analyzeCalls + 1
  /\ LET r == AnalyzeGestureHistoryBody(gestureHistory)
     IN /\ lastToast' = IF r.toast = NoToast THEN lastToast ELSE r.toast
        /\ analyses' = IF r.request = Null THEN analyses
                       ELSE analyses \cup {[id |-> analyzeCalls + 1,
                                            payload |-> r.request.gestures]}
  /\ UNCHANGED <<riskAnalysis, riskUpdates, riskData>>
  /\ UNCHANGED <<cameraVars, video, frameVars>>
  /\ UNCHANGED otherThanWebcam

\* POST /gestures/analyze answers: setRiskAnalysis, onRiskUpdate, toast
AnalysisSucceeded ==
  /\ \E r \in analyses, level \in RiskLevels :
       LET data == [request |-> r.id, risk_level |-> level,
                    gestures_analyzed |-> Len(r.payload)]
       IN /\ analyses' = analyses \ {r}
          /\ riskAnalysis' = data
          /\ riskData' = data
          /\ lastToast' = [kind |-> ToastKind(level), level |-> level]
  /\ riskUpdates' = riskUpdates + 1
  /\ UNCHANGED analyzeCalls
  /\ UNCHANGED <<cameraVars, video, frameVars>>
  /\ UNCHANGED otherThanWebcam

\* POST /gestures/analyze fails
AnalysisFailed ==
  /\ \E r \in analyses : analyses' = analyses \ {r}
  /\ lastToast' = [kind |-> "error", level |-> "failed"]
  /\ UNCHANGED <<riskAnalysis, riskUpdates, riskData, analyzeCalls>>
  /\ UNCHANGED <<cameraVars, video, frameVars>>
  /\ UNCHANGED otherThanWebcam


(***************************************************************************)
(* Dashboard: the alerts panel.  The server side of /alerts is the set of  *)
(* alerts whose acknowledged flag is still false; PATCH .../acknowledge    *)
(* flips the flag and GET /alerts?acknowledged=false lists the rest.       *)
(***************************************************************************)
AlertIds == 1..NumAlerts

RECURSIVE SeqOfSet(_)
\* the alerts of a set as a list, in id order
SeqOfSet(S) ==
  IF S = {} THEN <<>>
  ELSE LET m == CHOOSE x \in S : \A y \in S : x <= y
       IN <<m>> \o SeqOfSet(S \ {m})

Range(s) == {s[i] : i \in 1..Len(s)}

\* alerts.filter(a => a.id !== alertId)
WithoutAlert(list, alertId) ==
  LET keep(a) == a # alertId IN SelectSeq(list, keep)

\* The component has mounted: useEffect has called fetchDashboardData once.
\* the requests of Promise.all, by the state each response is set to
Endpoints == {"kpis", "alerts", "riskData", "errorRates", "symbiosisTrend"}

\* useState(null) for kpis, useState([]) for the charts
NoData == [kpis |-> 0, riskData |-> 0, errorRates |-> 0, symbiosisTrend |-> 0]

\* A fetchDashboardData call in flight: whether GET /alerts has been answered
\* and with what, and the request that has failed, if one has.
\* live: the Dashboard instance that made the call is still mounted.
NewFetch(id) ==
  [id |-> id, served |-> FALSE, snapshot |-> <<>>, failed |-> {}, live |-> TRUE]

\* The calls of an instance that has unmounted: their answers set no state.
Unmounted(calls) == {[c EXCEPT !.live = FALSE] : c \in calls}

\* No Dashboard has been mounted yet.
DashboardNotMounted ==
  /\ serverUnacked = AlertIds
  /\ alerts = <<>>
  /\ dashLoading = TRUE
  /\ fetches = {}
  /\ acks = {}
  /\ ackDone = {}
  /\ requests = 0
  /\ sinceFetch = 0
  /\ dashData = NoData

InitDashboard ==
  /\ serverUnacked = AlertIds
  /\ alerts = <<>>
  /\ dashLoading = TRUE
  /\ fetches = {NewFetch(1)}
  /\ acks = {}
  /\ ackDone = {}
  /\ requests = 1
  /\ sinceFetch = 0
  /\ dashData = NoData

\* Refresh Data: fetchDashboardData up to the await (the page shows the
\* spinner, and no button, while loading)
FetchDashboardData ==
  /\ history[Len(history)] = "/dashboard"
  /\ ~dashLoading
  /\ requests < MaxRequests
  /\ dashLoading' = TRUE
  /\ requests' = requests + 1
  /\ fetches' = fetches \cup {NewFetch(requests + 1)}
  /\ UNCHANGED <<serverUnacked, alerts, acks, ackDone>>
  /\ sinceFetch' = 0
  /\ UNCHANGED dashData
  /\ UNCHANGED otherThanDashboard

\* the server answers GET /alerts?acknowledged=false
ServeAlerts ==
  /\ \E f \in fetches :
       /\ ~f.served
       /\ "alerts" \notin f.failed
       /\ fetches' = (fetches \ {f}) \cup
                       {[f EXCEPT !.served = TRUE, !.snapshot = SeqOfSet(serverUnacked)]}
  /\ UNCHANGED <<serverUnacked, alerts, dashLoading, acks, ackDone, requests>>
  /\ UNCHANGED <<sinceFetch, dashData>>
  /\ UNCHANGED otherThanDashboard

\* one of the five requests fails (Promise.all rejects at the first failure)
ServeFailure ==
  /\ \E f \in fetches, e \in Endpoints :
       /\ f.failed = {}
       /\ e = "alerts" => ~f.served
       /\ fetches' = (fetches \ {f}) \cup {[f EXCEPT !.failed = {e}]}
  /\ UNCHANGED <<serverUnacked, alerts, dashLoading, acks, ackDone, requests>>
  /\ UNCHANGED <<sinceFetch, dashData>>
  /\ UNCHANGED otherThanDashboard

\* Promise.all resolves: setKpis, setAlerts, setRiskData, setErrorRates,
\* setSymbiosisTrend; finally setLoading(false)
FetchSucceeded ==
  /\ \E f \in fetches :
       /\ f.served
       /\ f.failed = {}
       /\ fetches' = fetches \ {f}
       /\ IF f.live
          THEN /\ alerts' = f.snapshot
               /\ dashData' = [kpis |-> f.id, riskData |-> f.id, errorRates |-> f.id,
                               symbiosisTrend |-> f.id]
               /\ dashLoading' = FALSE
          ELSE UNCHANGED <<alerts, dashData, dashLoading>>
  /\ UNCHANGED <<serverUnacked, acks, ackDone, requests>>
  /\ UNCHANGED sinceFetch
  /\ UNCHANGED otherThanDashboard

\* Faulty variant, for sensitivity checks: the responses are awaited and set
\* one by one, so those before the failed request are set.
FetchFailedPartly ==
  /\ \E f \in fetches :
       /\ f.failed # {}
       /\ fetches' = fetches \ {f}
       /\ dashData' = IF "kpis" \in f.failed \/ ~f.live THEN dashData
                      ELSE [dashData EXCEPT !.kpis = f.id]
       /\ dashLoading' = IF f.live THEN FALSE ELSE dashLoading
  /\ UNCHANGED <<serverUnacked, alerts, acks, ackDone, requests>>
  /\ UNCHANGED sinceFetch
  /\ UNCHANGED otherThanDashboard

\* Promise.all rejects: catch: toast; finally setLoading(false)
FetchFailed ==
  /\ \E f \in fetches :
       /\ f.failed # {}
       /\ fetches' = fetches \ {f}
       /\ dashLoading' = IF f.live THEN FALSE ELSE dashLoading
  /\ UNCHANGED <<serverUnacked, alerts, acks, ackDone, requests>>
  /\ UNCHANGED <<sinceFetch, dashData>>
  /\ UNCHANGED otherThanDashboard

\* Dismiss on an alert: acknowledgeAlert(alert.id) up to the await; the call
\* keeps the alerts of the render it was made in.
AcknowledgeAlert ==
  /\ history[Len(history)] = "/dashboard"
  /\ ~dashLoading
  /\ requests < MaxRequests
  /\ \E a \in Range(alerts) :
       acks' = acks \cup {[id |-> requests + 1, alertId |-> a,
                           alerts |-> alerts, served |-> FALSE, live |-> TRUE]}
  /\ requests' = requests + 1
  /\ UNCHANGED <<serverUnacked, alerts, dashLoading, fetches, ackDone>>
  /\ UNCHANGED <<sinceFetch, dashData>>
  /\ UNCHANGED otherThanDashboard

\* the server handles PATCH /alerts/{id}/acknowledge
ServeAcknowledge ==
  /\ \E k \in acks :
       /\ ~k.served
       /\ serverUnacked' = serverUnacked \ {k.alertId}
       /\ acks' = (acks \ {k}) \cup {[k EXCEPT !.served = TRUE]}
  /\ UNCHANGED <<alerts, dashLoading, fetches, ackDone, requests>>
  /\ UNCHANGED <<sinceFetch, dashData>>
  /\ UNCHANGED otherThanDashboard

\* the PATCH resolves: setAlerts(alerts.filter(a => a.id !== alertId))
AcknowledgeSucceeded ==
  /\ \E k \in acks :
       /\ k.served
       /\ acks' = acks \ {k}
       /\ alerts' = IF k.live THEN WithoutAlert(k.alerts, k.alertId) ELSE alerts
       /\ ackDone' = ackDone \cup {k.alertId}
  /\ UNCHANGED <<serverUnacked, dashLoading, fetches, requests>>
  /\ UNCHANGED <<sinceFetch, dashData>>
  /\ UNCHANGED otherThanDashboard

\* the PATCH fails before it reaches the server
AcknowledgeFailed ==
  /\ \E k \in acks :
       /\ ~k.served
       /\ acks' = acks \ {k}
  /\ UNCHANGED <<serverUnacked, alerts, dashLoading, fetches, ackDone, requests>>
  /\ UNCHANGED <<sinceFetch, dashData>>
  /\ UNCHANGED otherThanDashboard


(***************************************************************************)
(* ScenarioBuilder: the create-scenario form.  A name is a sequence of     *)
(* characters; shift_duration_hours and proximity_threshold_meters are in  *)
(* tenths.                                                                 *)
(***************************************************************************)
TASK_TYPES == {"assembly_line", "quality_check", "material_handling", "collaborative_work"}

\* The code units String.prototype.trim removes (WhiteSpace and
\* LineTerminator); those without an escape are written by their code point.
Whitespace ==
  {"\t", "\n", "U+000B", "\f", "\r", " ", "U+00A0", "U+1680", "U+2000", "U+2001",
   "U+2002", "U+2003", "U+2004", "U+2005", "U+2006", "U+2007", "U+2008", "U+2009",
   "U+200A", "U+2028", "U+2029", "U+202F", "U+205F", "U+3000", "U+FEFF"}

\* new Date().toLocaleDateString(): the string depends on the clock and on the
\* locale of the browser; some of the strings it can be.
DateStrings ==
  {<<"1", "/", "1", "0", "/", "2", "0", "2", "6">>,
   <<"1", "0", "/", "0", "1", "/", "2", "0", "2", "6">>,
   <<"1", "0", ".", "1", ".", "2", "0", "2", "6">>,
   <<"1", "0", "/", "2", "9", "/", "2", "0", "2", "6">>}

\* `${preset.name} - ${new Date().toLocaleDateString()}`
PresetName(name, date) == name \o <<" ", "-", " ">> \o date

PRESET_SCENARIOS ==
  <<[name |-> <<"S", "t", "a", "n", "d", "a", "r", "d", " ", "A", "s", "s", "e", "m", "b", "l", "y">>,
     task_type |-> "assembly_line", worker_count |-> 5, robot_count |-> 3,
     shift_duration_hours |-> 80, proximity_threshold_meters |-> 15,
     description |-> "Standard assembly line configuration with moderate worker density"],
    [name |-> <<"H", "i", "g", "h", "-", "D", "e", "n", "s", "i", "t", "y", " ",
                "C", "o", "l", "l", "a", "b", "o", "r", "a", "t", "i", "v", "e">>,
     task_type |-> "collaborative_work", worker_count |-> 12, robot_count |-> 6,
     shift_duration_hours |-> 100, proximity_threshold_meters |-> 10,
     description |-> "High-density collaborative workspace requiring close proximity"],
    [name |-> <<"M", "a", "t", "e", "r", "i", "a", "l", " ", "T", "r", "a", "n", "s", "p", "o", "r", "t">>,
     task_type |-> "material_handling", worker_count |-> 3, robot_count |-> 8,
     shift_duration_hours |-> 120, proximity_threshold_meters |-> 20,
     description |-> "Material handling with multiple autonomous transport robots"]>>

\* the form as useState and resetForm set it
DefaultForm ==
  [name |-> <<>>, task_type |-> "assembly_line", worker_count |-> 5, robot_count |-> 3,
   shift_duration_hours |-> 80, proximity_threshold_meters |-> 15, description |-> ""]

\* The Slider props of the four numeric fields: min, max, step.
WorkerSlider == [min |-> 1, max |-> 50, step |-> 1]
RobotSlider == [min |-> 1, max |-> 20, step |-> 1]
ShiftSlider == [min |-> 10, max |-> 120, step |-> 5]
ProximitySlider == [min |-> 5, max |-> 50, step |-> 1]

\* The values a slider reports when moved from value v: one step down or up
\* (arrow keys), or its ends (Home, End); never outside min..max.
SliderMoves(sl, v) ==
  {w \in {v - sl.step, v + sl.step, sl.min, sl.max} : w >= sl.min /\ w <= sl.max}

RECURSIVE TrimStart(_)
TrimStart(s) ==
  IF s # <<>> /\ Head(s) \in Whitespace THEN TrimStart(Tail(s)) ELSE s

RECURSIVE TrimEnd(_)
TrimEnd(s) ==
  IF s # <<>> /\ s[Len(s)] \in Whitespace THEN TrimEnd(SubSeq(s, 1, Len(s) - 1)) ELSE s

\* String.prototype.trim
Trim(s) == TrimEnd(TrimStart(s))

\* Faulty variant, for sensitivity checks: the check without trim().
NameMissingNoTrim(name) == name = <<>>

\* !formData.name.trim()
NameMissing(name) == Trim(name) = <<>>

\* the ScenarioBuilder page is shown: the location is /scenarios and
\* fetchScenarios has finished (if (loading) return the spinner)
ScenarioBuilderShown == history[Len(history)] = "/scenarios" /\ ~scenLoading

\* a call made by mount m finds the instance it belongs to still mounted
Current(m) == m = scenMount /\ history[Len(history)] = "/scenarios"

\* what can be typed into the name input
TypedNames == UNION {[1..n -> {" ", "\t", "A"}] : n \in 0..MaxNameLen}

\* what can be typed into the description textarea
TypedDescriptions == {"", "x"}

InitForm ==
  /\ formData = DefaultForm
  /\ isCreateOpen = FALSE
  /\ creates = {}
  /\ posts = 0
  /\ submitted = <<>>
  /\ formEdits = 0

\* New Scenario button
OpenCreateDialog ==
  /\ ScenarioBuilderShown
  /\ ~isCreateOpen
  /\ isCreateOpen' = TRUE
  /\ UNCHANGED <<formData, creates, posts, submitted, formEdits>>
  /\ UNCHANGED otherThanForm

\* the dialog is dismissed (Escape, overlay): onOpenChange(false)
DismissDialog ==
  /\ ScenarioBuilderShown
  /\ isCreateOpen
  /\ isCreateOpen' = FALSE
  /\ UNCHANGED <<formData, creates, posts, submitted, formEdits>>
  /\ UNCHANGED otherThanForm

\* a preset card: applyPreset(preset); setIsCreateOpen(true)
ApplyPreset ==
  /\ ScenarioBuilderShown
  /\ ~isCreateOpen
  /\ \E i \in 1..Len(PRESET_SCENARIOS), date \in DateStrings :
       formData' = [PRESET_SCENARIOS[i] EXCEPT
                      !.name = PresetName(PRESET_SCENARIOS[i].name, date)]
  /\ isCreateOpen' = TRUE
  /\ UNCHANGED <<creates, posts, submitted, formEdits>>
  /\ UNCHANGED otherThanForm

\* the name input's onChange
TypeName ==
  /\ ScenarioBuilderShown
  /\ isCreateOpen
  /\ formEdits < MaxFormEdits
  /\ \E n \in TypedNames : formData' = [formData EXCEPT !.name = n]
  /\ formEdits' = formEdits + 1
  /\ UNCHANGED <<isCreateOpen, creates, posts, submitted>>
  /\ UNCHANGED otherThanForm

\* the description textarea's onChange
TypeDescription ==
  /\ ScenarioBuilderShown
  /\ isCreateOpen
  /\ formEdits < MaxFormEdits
  /\ \E d \in TypedDescriptions : formData' = [formData EXCEPT !.description = d]
  /\ formEdits' = formEdits + 1
  /\ UNCHANGED <<isCreateOpen, creates, posts, submitted>>
  /\ UNCHANGED otherThanForm

\* the task-type Select's onValueChange
SelectTaskType ==
  /\ ScenarioBuilderShown
  /\ isCreateOpen
  /\ formEdits < MaxFormEdits
  /\ \E t \in TASK_TYPES : formData' = [formData EXCEPT !.task_type = t]
  /\ formEdits' = formEdits + 1
  /\ UNCHANGED <<isCreateOpen, creates, posts, submitted>>
  /\ UNCHANGED otherThanForm

\* the four sliders' onValueChange
MoveSlider ==
  /\ ScenarioBuilderShown
  /\ isCreateOpen
  /\ formEdits < MaxFormEdits
  /\ \/ \E v \in SliderMoves(WorkerSlider, formData.worker_count) :
          formData' = [formData EXCEPT !.worker_count = v]
     \/ \E v \in SliderMoves(RobotSlider, formData.robot_count) :
          formData' = [formData EXCEPT !.robot_count = v]
     \/ \E v \in SliderMoves(ShiftSlider, formData.shift_duration_hours) :
          formData' = [formData EXCEPT !.shift_duration_hours = v]
     \/ \E v \in SliderMoves(ProximitySlider, formData.proximity_threshold_meters) :
          formData' = [formData EXCEPT !.proximity_threshold_meters = v]
  /\ formEdits' = formEdits + 1
  /\ UNCHANGED <<isCreateOpen, creates, posts, submitted>>
  /\ UNCHANGED otherThanForm

\* Cancel: setIsCreateOpen(false); resetForm()
CancelCreate ==
  /\ ScenarioBuilderShown
  /\ isCreateOpen
  /\ isCreateOpen' = FALSE
  /\ formData' = DefaultForm
  /\ UNCHANGED <<creates, posts, submitted, formEdits>>
  /\ UNCHANGED otherThanForm

\* the stored scenario POST /scenarios answers with
StoredScenario(id) == [id |-> id, status |-> "draft"]

\* what the server stores when the application is opened: one scenario,
\* created earlier and not yet analyzed
InitialScenarios == <<StoredScenario(1)>>

\* Create Scenario: createScenario up to the await.  The call keeps the
\* scenarios of the render it was made in; the id is the one the server will
\* give the scenario.
CreateScenario ==
  /\ ScenarioBuilderShown
  /\ isCreateOpen
  /\ posts < MaxCreates
  /\ IF NameMissing(formData.name)
     THEN UNCHANGED <<creates, posts, submitted>>
     ELSE /\ creates' = creates \cup
               {[mount |-> scenMount, id |-> Len(InitialScenarios) + posts + 1,
                 scenarios |-> scenarios]}
          /\ posts' = posts + 1
          /\ submitted' = <<formData>>
  /\ UNCHANGED <<formData, isCreateOpen, formEdits>>
  /\ UNCHANGED otherThanForm


\* POST /scenarios resolves: setScenarios([...scenarios, response.data]);
\* setIsCreateOpen(false); resetForm()
CreateSucceeded ==
  \E c \in creates :
    /\ creates' = creates \ {c}
    /\ serverScenarios' = Append(serverScenarios, StoredScenario(c.id))
    /\ IF Current(c.mount)
       THEN /\ scenarios' = Append(c.scenarios, StoredScenario(c.id))
            /\ isCreateOpen' = FALSE
            /\ formData' = DefaultForm
            /\ createdOk' = createdOk \cup {c.id}
       ELSE UNCHANGED <<scenarios, isCreateOpen, formData, createdOk>>
    /\ UNCHANGED <<posts, submitted, formEdits>>
    /\ UNCHANGED <<scenLoading, scenMount, scenFetches, deletes, runningPrediction,
                   serverPredicted, fetchedIds, deletedOk>>
    /\ UNCHANGED <<otherThanScenarioBuilder, navVars>>

\* POST /scenarios fails: toast
CreateFailed ==
  \E c \in creates :
    /\ creates' = creates \ {c}
    /\ UNCHANGED <<formData, isCreateOpen, posts, submitted, formEdits>>
    /\ UNCHANGED otherThanForm

(***************************************************************************)
(* ScenarioBuilder: the scenario list.  The server answers a request in    *)
(* the step in which the client receives the answer.                       *)
(***************************************************************************)
IdsOf(list) == {list[i].id : i \in 1..Len(list)}

\* list.filter(s => s.id !== id)
WithoutScenario(list, id) == SelectSeq(list, LAMBDA sc : sc.id # id)

InitScenarios ==
  /\ scenarios = <<>>
  /\ scenLoading = TRUE
  /\ scenMount = 0
  /\ scenFetches = {}
  /\ deletes = {}
  /\ runningPrediction = 0
  /\ serverScenarios = InitialScenarios
  /\ serverPredicted = {}
  /\ fetchedIds = {}
  /\ createdOk = {}
  /\ deletedOk = {}

\* GET /scenarios resolves: setScenarios(response.data); finally setLoading(false)
FetchScenariosSucceeded ==
  \E m \in scenFetches :
    /\ scenFetches' = scenFetches \ {m}
    /\ IF Current(m)
       THEN /\ scenarios' = serverScenarios
            /\ scenLoading' = FALSE
            /\ fetchedIds' = IdsOf(serverScenarios)
       ELSE UNCHANGED <<scenarios, scenLoading, fetchedIds>>
    /\ UNCHANGED <<scenMount, deletes, runningPrediction, serverScenarios,
                   serverPredicted, createdOk, deletedOk>>
    /\ UNCHANGED <<otherThanScenarioBuilder, formVars, navVars>>

\* GET /scenarios fails: toast; finally setLoading(false)
FetchScenariosFailed ==
  \E m \in scenFetches :
    /\ scenFetches' = scenFetches \ {m}
    /\ scenLoading' = IF Current(m) THEN FALSE ELSE scenLoading
    /\ UNCHANGED <<scenarios, scenMount, deletes, runningPrediction, serverScenarios,
                   serverPredicted, fetchedIds, createdOk, deletedOk>>
    /\ UNCHANGED <<otherThanScenarioBuilder, formVars, navVars>>

\* the trash button of a scenario: deleteScenario(scenario.id) up to the await;
\* the call keeps the scenarios of the render it was made in
DeleteScenario ==
  /\ ScenarioBuilderShown
  /\ ~isCreateOpen
  /\ Cardinality(deletes) < MaxDeletes
  /\ \E i \in 1..Len(scenarios) :
       deletes' = deletes \cup
         {[mount |-> scenMount, id |-> scenarios[i].id, scenarios |-> scenarios]}
  /\ UNCHANGED <<scenarios, scenLoading, scenMount, scenFetches, runningPrediction,
                 serverScenarios, serverPredicted, fetchedIds, createdOk, deletedOk>>
  /\ UNCHANGED <<otherThanScenarioBuilder, formVars, navVars>>

\* DELETE /scenarios/{id} resolves: setScenarios(scenarios.filter(s => s.id !== id))
DeleteSucceeded ==
  \E d \in deletes :
    /\ d.id \in IdsOf(serverScenarios)
    /\ deletes' = deletes \ {d}
    /\ serverScenarios' = WithoutScenario(serverScenarios, d.id)
    /\ IF Current(d.mount)
       THEN /\ scenarios' = WithoutScenario(d.scenarios, d.id)
            /\ deletedOk' = deletedOk \cup {d.id}
       ELSE UNCHANGED <<scenarios, deletedOk>>
    /\ UNCHANGED <<scenLoading, scenMount, scenFetches, runningPrediction,
                   serverPredicted, fetchedIds, createdOk>>
    /\ UNCHANGED <<otherThanScenarioBuilder, formVars, navVars>>

\* DELETE /scenarios/{id} fails (the scenario is gone, or the request is lost): toast
DeleteFailed ==
  \E d \in deletes :
    /\ deletes' = deletes \ {d}
    /\ UNCHANGED <<scenarios, scenLoading, scenMount, scenFetches, runningPrediction,
                   serverScenarios, serverPredicted, fetchedIds, createdOk, deletedOk>>
    /\ UNCHANGED <<otherThanScenarioBuilder, formVars, navVars>>


(***************************************************************************)
(* App, Layout, Landing: routes and navigation.                            *)
(***************************************************************************)
\* <Routes>: the page element a path renders, "none" when no route matches
RouteElement(path) ==
  CASE path = "/"            -> "Landing"
    [] path = "/dashboard"   -> "Dashboard"
    [] path = "/scenarios"   -> "ScenarioBuilder"
    [] path = "/data"        -> "DataUpload"
    [] path = "/predictions" -> "Predictions"
    [] path = "/settings"    -> "Settings"
    [] OTHER                 -> "none"

\* the routes nested in <Route element={<Layout />}>
InLayout(path) ==
  path \in {"/dashboard", "/scenarios", "/data", "/predictions", "/settings"}

\* Layout: const navigation = [...]: the hrefs of the sidebar
navigation == {"/dashboard", "/scenarios", "/data", "/predictions", "/settings"}

\* the pages the PRD lists
PrdPages ==
  {"Landing", "Dashboard", "LiveDetection", "ScenarioBuilder", "Predictions",
   "DataUpload", "Settings"}

Location == history[Len(history)]

Page == RouteElement(Location)

InitNav ==
  /\ history = <<"/">>
  /\ sidebarOpen = FALSE
  /\ predictionsRunning = <<>>
  /\ predLoading = TRUE

\* The location changes from one path to another: when this brings the
\* ScenarioBuilder page up, a new instance is mounted with its initial state
\* and its useEffect calls fetchScenarios.
MountOnArrival(from, to) ==
  IF RouteElement(to) = "ScenarioBuilder" /\ RouteElement(from) # "ScenarioBuilder"
  THEN /\ scenMount < MaxMounts
       /\ formData' = DefaultForm
       /\ isCreateOpen' = FALSE
       /\ scenarios' = <<>>
       /\ scenLoading' = TRUE
       /\ scenMount' = scenMount + 1
       /\ scenFetches' = scenFetches \cup {scenMount + 1}
       /\ runningPrediction' = 0
       /\ fetchedIds' = {}
       /\ createdOk' = {}
       /\ deletedOk' = {}
  ELSE UNCHANGED mountVars

\* Settings: useState({ ..., autoRefresh: true, refreshInterval: 30, ... })
DefaultSettings == [autoRefresh |-> TRUE, refreshInterval |-> 30]

\* The location changes from one path to another.  Every route renders its
\* own element: the page that comes up is a new instance with its initial
\* state, whose useEffect (Dashboard: fetchDashboardData, Predictions:
\* fetchPredictions) runs; the page that goes unmounts, and the answers to
\* its calls set no state any more.
PageChange(from, to) ==
  LET old == RouteElement(from)
      new == RouteElement(to)
  IN /\ IF new = "Dashboard" /\ old # "Dashboard"
        THEN /\ requests < MaxRequests
             /\ alerts' = <<>>
             /\ dashLoading' = TRUE
             /\ dashData' = NoData
             /\ requests' = requests + 1
             /\ fetches' = fetches \cup {NewFetch(requests + 1)}
             /\ sinceFetch' = 0
             /\ UNCHANGED acks
        ELSE IF old = "Dashboard" /\ new # "Dashboard"
        THEN /\ fetches' = Unmounted(fetches)
             /\ acks' = Unmounted(acks)
             /\ UNCHANGED <<alerts, dashLoading, dashData, requests, sinceFetch>>
        ELSE UNCHANGED <<alerts, dashLoading, dashData, requests, fetches, sinceFetch, acks>>
     /\ IF new = "DataUpload" /\ old # "DataUpload"
        THEN /\ uploadedFiles' = <<>>
             /\ uploadLoading' = FALSE
             /\ UNCHANGED uploading
        ELSE IF old = "DataUpload" /\ new # "DataUpload"
        THEN /\ uploading' = Unmounted(uploading)
             /\ UNCHANGED <<uploadedFiles, uploadLoading>>
        ELSE UNCHANGED <<uploadedFiles, uploadLoading, uploading>>
     /\ settings' = IF new = "Settings" /\ old # "Settings" THEN DefaultSettings
                    ELSE settings
     /\ predLoading' = IF new = "Predictions" /\ old # "Predictions" THEN TRUE
                       ELSE predLoading

\* navigate(path): push the path; Layout (and its sidebarOpen) stays mounted
\* only while both the old and the new location are under it
Navigate(path) ==
  /\ Len(history) < MaxHistoryDepth
  /\ history' = Append(history, path)
  /\ MountOnArrival(Location, path)
  /\ PageChange(Location, path)

LayoutKept(path) == InLayout(Location) /\ InLayout(path)

\* Landing: Launch Dashboard
LaunchDashboard ==
  /\ Page = "Landing"
  /\ Navigate("/dashboard")
  /\ UNCHANGED <<sidebarOpen, predictionsRunning>>
  /\ UNCHANGED otherThanNav

\* Landing: Try Live Detection
TryLiveDetection ==
  /\ Page = "Landing"
  /\ Navigate("/live")
  /\ UNCHANGED <<sidebarOpen, predictionsRunning>>
  /\ UNCHANGED otherThanNav

\* Landing: Create Scenario
LandingCreateScenario ==
  /\ Page = "Landing"
  /\ Navigate("/scenarios")
  /\ UNCHANGED <<sidebarOpen, predictionsRunning>>
  /\ UNCHANGED otherThanNav

\* Layout: a NavLink of the sidebar; onClick closes the sidebar.  A link to
\* the location already shown replaces the current history entry (react-router
\* pushes only when the path differs): the history and the mounted page stay
\* as they are.
SidebarLink ==
  /\ InLayout(Location)
  /\ \E href \in navigation :
       IF href = Location
       THEN UNCHANGED <<history, mountVars, pageVars>>
       ELSE Navigate(href)
  /\ sidebarOpen' = FALSE
  /\ UNCHANGED predictionsRunning
  /\ UNCHANGED otherThanNav

\* Layout: the mobile menu toggle
ToggleSidebar ==
  /\ InLayout(Location)
  /\ sidebarOpen' = ~sidebarOpen
  /\ UNCHANGED <<history, predictionsRunning>>
  /\ UNCHANGED <<mountVars, pageVars>>
  /\ UNCHANGED otherThanNav

\* Dashboard: Create New Scenario, View All Predictions (the page shows the
\* spinner, and no button, while loading)
DashboardQuickAction ==
  /\ Page = "Dashboard"
  /\ ~dashLoading
  /\ \E path \in {"/scenarios", "/predictions"} : Navigate(path)
  /\ UNCHANGED <<sidebarOpen, predictionsRunning>>
  /\ UNCHANGED otherThanNav

\* Predictions: fetchPredictions settles, with the data or with a toast;
\* finally setLoading(false)
FetchPredictionsSettled ==
  /\ Page = "Predictions"
  /\ predLoading
  /\ predLoading' = FALSE
  /\ UNCHANGED <<history, sidebarOpen, predictionsRunning>>
  /\ UNCHANGED <<alerts, dashLoading, fetches, acks, requests, sinceFetch, dashData,
                 uploadedFiles, uploadLoading, uploading, settings>>
  /\ UNCHANGED mountVars
  /\ UNCHANGED otherThanNav

\* Predictions: Refresh: fetchPredictions up to the await
RefreshPredictions ==
  /\ Page = "Predictions"
  /\ ~predLoading
  /\ predLoading' = TRUE
  /\ UNCHANGED <<history, sidebarOpen, predictionsRunning>>
  /\ UNCHANGED <<alerts, dashLoading, fetches, acks, requests, sinceFetch, dashData,
                 uploadedFiles, uploadLoading, uploading, settings>>
  /\ UNCHANGED mountVars
  /\ UNCHANGED otherThanNav

\* Predictions: the buttons that lead to the scenario builder (the page
\* shows the spinner, and no button, while loading)
PredictionsToScenarios ==
  /\ Page = "Predictions"
  /\ ~predLoading
  /\ Navigate("/scenarios")
  /\ UNCHANGED <<sidebarOpen, predictionsRunning>>
  /\ UNCHANGED otherThanNav

\* ScenarioBuilder, Predict on a scenario (disabled while runningPrediction is
\* that scenario): runPrediction up to the await
RunPrediction ==
  /\ ScenarioBuilderShown
  /\ ~isCreateOpen
  /\ \E i \in 1..Len(scenarios) :
       /\ runningPrediction # scenarios[i].id
       /\ runningPrediction' = scenarios[i].id
       /\ predictionsRunning' =
            Append(predictionsRunning, [mount |-> scenMount, id |-> scenarios[i].id])
  /\ UNCHANGED <<history, sidebarOpen, pageVars>>
  /\ UNCHANGED <<formData, isCreateOpen, scenarios, scenLoading, scenMount,
                 scenFetches, fetchedIds, createdOk, deletedOk>>
  /\ UNCHANGED otherThanNav

\* Faulty variant, for sensitivity checks: every stored scenario is marked.
MarkAllAnalyzed(list, id) ==
  [i \in 1..Len(list) |-> [list[i] EXCEPT !.status = "analyzed"]]

\* POST /predictions/{id} on the server: a prediction is run against the
\* scenario, whose status becomes analyzed
MarkAnalyzed(list, id) ==
  [i \in 1..Len(list) |-> IF list[i].id = id THEN [list[i] EXCEPT !.status = "analyzed"]
                          ELSE list[i]]

\* runPrediction: the POST resolves: navigate('/predictions'); finally
\* setRunningPrediction(null)
PredictionCompleted ==
  \E k \in 1..Len(predictionsRunning) : LET r == predictionsRunning[k] IN
    /\ r.id \in IdsOf(serverScenarios)
    /\ predictionsRunning' = RemoveAt(predictionsRunning, k)
    /\ serverScenarios' = MarkAnalyzed(serverScenarios, r.id)
    /\ serverPredicted' = serverPredicted \cup {r.id}
    /\ Len(history) < MaxHistoryDepth
    /\ history' = Append(history, "/predictions")
    /\ PageChange(Location, "/predictions")
    /\ sidebarOpen' = IF LayoutKept("/predictions") THEN sidebarOpen ELSE FALSE
    /\ runningPrediction' = IF Current(r.mount) THEN 0 ELSE runningPrediction
    /\ UNCHANGED <<formData, isCreateOpen, scenarios, scenLoading, scenMount,
                   scenFetches, fetchedIds, createdOk, deletedOk>>
    /\ UNCHANGED <<webcamVars, liveVars, engineVars, pageKept, callVars>>

\* runPrediction: the POST fails: toast; finally setRunningPrediction(null)
PredictionFailed ==
  \E k \in 1..Len(predictionsRunning) : LET r == predictionsRunning[k] IN
    /\ predictionsRunning' = RemoveAt(predictionsRunning, k)
    /\ runningPrediction' = IF Current(r.mount) THEN 0 ELSE runningPrediction
    /\ UNCHANGED <<history, sidebarOpen, pageVars>>
    /\ UNCHANGED <<formData, isCreateOpen, scenarios, scenLoading, scenMount,
                   scenFetches, fetchedIds, createdOk, deletedOk>>
    /\ UNCHANGED otherThanNav

\* one prediction at a time
RunPredictionAlone == Len(predictionsRunning) < MaxPredictions /\ RunPrediction

\* predictions started one after another, before the earlier ones have settled
RunPredictionOverlapping == Len(predictionsRunning) < MaxOverlapping /\ RunPrediction

\* the browser's Back button
BrowserBack ==
  /\ Len(history) > 1
  /\ history' = SubSeq(history, 1, Len(history) - 1)
  /\ MountOnArrival(Location, history[Len(history) - 1])
  /\ PageChange(Location, history[Len(history) - 1])
  /\ sidebarOpen' = IF InLayout(Location) /\ InLayout(history[Len(history) - 1])
                    THEN sidebarOpen ELSE FALSE
  /\ UNCHANGED predictionsRunning
  /\ UNCHANGED otherThanNav

(***************************************************************************)
(* Risk scoring engine and feature encoder: the pure functions of the      *)
(* backend, applied to an argument chosen beforehand.  Scores are in       *)
(* hundredths, confidences in percent.                                     *)
(***************************************************************************)
EngineIdle == input = Null /\ output = Null

\* the bucketing thresholds: < 0.3 low, < 0.55 medium, < 0.8 high, else critical
MediumFrom == 30
HighFrom == 55
CriticalFrom == 80

\* Faulty variant, for sensitivity checks: a score on a threshold stays in the
\* lower bucket.
RiskLevelOfInclusive(score) ==
  IF score <= MediumFrom THEN "low"
  ELSE IF score <= HighFrom THEN "medium"
  ELSE IF score <= CriticalFrom THEN "high"
  ELSE "critical"

\* risk_level of an overall_risk_score
RiskLevelOf(score) ==
  IF score < MediumFrom THEN "low"
  ELSE IF score < HighFrom THEN "medium"
  ELSE IF score < CriticalFrom THEN "high"
  ELSE "critical"

\* Predictions: getRiskLevelConfig(level).label, configs[level] || configs.medium.
\* configs is an object literal: a level naming a member of Object.prototype
\* finds that member, which is truthy and has no label.
RiskLevelLabel(level) ==
  CASE level = "low"      -> "LOW RISK"
    [] level = "medium"   -> "MEDIUM RISK"
    [] level = "high"     -> "HIGH RISK"
    [] level = "critical" -> "CRITICAL"
    [] level \in ObjectPrototypeKeys -> "undefined"
    [] OTHER              -> "MEDIUM RISK"

Scores == 0..100

\* a prediction is given its risk_level and shown on the Predictions page
BucketScore ==
  /\ input # Null /\ output = Null
  /\ input.kind = "score"
  /\ output' = [risk_level |-> RiskLevelOf(input.score),
                label |-> RiskLevelLabel(RiskLevelOf(input.score))]
  /\ UNCHANGED input
  /\ UNCHANGED otherThanEngine

\* Faulty variant, for sensitivity checks: the two base risks are exchanged.
BaseRiskExchanged(taskType) ==
  IF taskType \in {"assembly_line", "quality_check"} THEN 30 ELSE 10

\* step 1: the base risk contribution of a task type: low (0.10) for
\* assembly_line and quality_check, high (0.30) for material_handling and
\* collaborative_work
BaseRisk(taskType) ==
  IF taskType \in {"assembly_line", "quality_check"} THEN 10 ELSE 30

Min(a, b) == IF a < b THEN a ELSE b
Max(a, b) == IF a < b THEN b ELSE a

\* step 2: density, rising with the combined count and the robot-to-worker ratio
DensityFactor(sc) ==
  Min(25, (sc.worker_count + sc.robot_count) \div 2
            + Min(10, (5 * sc.robot_count) \div sc.worker_count))

\* step 3: fatigue, flat up to 8 h and rising beyond
FatigueFactor(sc) == Max(0, sc.shift_duration_hours - 80) \div 2

\* step 4: proximity, rising as the allowed distance falls
ProximityFactor(sc) == Max(0, 50 - sc.proximity_threshold_meters) \div 2

\* steps 5: the weighted combination, clamped to [0, 1]
ScoreScenario(sc) ==
  Min(100, BaseRisk(sc.task_type) + DensityFactor(sc) + FatigueFactor(sc)
             + ProximityFactor(sc))

ScenarioInputs ==
  [kind : {"scenario"}, task_type : TASK_TYPES, worker_count : {1, 5, 12, 50},
   robot_count : {1, 3, 8, 20}, shift_duration_hours : {10, 80, 100, 120},
   proximity_threshold_meters : {5, 10, 15, 20, 50}]

\* a scenario is scored
ScoreScenarioCall ==
  /\ input # Null /\ output = Null
  /\ input.kind = "scenario"
  /\ output' = [overall_risk_score |-> ScoreScenario(input),
                risk_level |-> RiskLevelOf(ScoreScenario(input))]
  /\ UNCHANGED input
  /\ UNCHANGED otherThanEngine

\* the canonical gesture vocabulary, in the order of the one-hot encoding
VocabularyOrder ==
  <<"stop", "proceed", "slow_down", "handover", "point", "wave", "emergency">>

\* Faulty variant, for sensitivity checks: a label outside the vocabulary is
\* encoded in the last slot.
OneHotCatchAll(label) ==
  [i \in 1..7 |->
     IF VocabularyOrder[i] = label THEN 1
     ELSE IF i = 7 /\ \A j \in 1..7 : VocabularyOrder[j] # label THEN 1
     ELSE 0]

\* 7-wide one-hot encoding of a gesture label; all-zero outside the vocabulary
OneHot(label) == [i \in 1..7 |-> IF VocabularyOrder[i] = label THEN 1 ELSE 0]

\* encode(sample): fails with InvalidInput when the sample has no position;
\* else one-hot, confidence, position.x, position.y (z dropped)
EncodeSample(sample) ==
  IF "position" \notin DOMAIN sample
  THEN [error |-> "InvalidInput", vector |-> <<>>]
  ELSE [error |-> "none",
        vector |-> OneHot(sample.gesture_type)
                     \o <<sample.confidence, sample.position.x, sample.position.y>>]

\* The samples the encoder is applied to.  Of the webcam component: the
\* newGesture of each frame with a recognised gesture (a sample whose
\* gesture_type is not a string ends the page before it is sent).  Of an
\* uploaded file: the three rows of the CSV format the DataUpload page
\* documents, which have a gesture_type, a confidence, a timestamp and a
\* source, and no position (the timestamps are the rows' seconds).
SampleInputs ==
  [kind : {"sample"},
   sample : {NewGesture(Frame(a[1], a[2]).label, Frame(a[1], a[2]).score,
                        Frame(a[1], a[2]).landmarks, a[2]) :
               a \in {b \in Videos \X (0..9) :
                        /\ Frame(b[1], b[2]).recognized
                        /\ IsString(GestureTypeOf(Frame(b[1], b[2]).label))}}
            \cup {[gesture_type |-> "stop", confidence |-> 95, timestamp |-> 0,
                   source |-> "roboflow"],
                  [gesture_type |-> "proceed", confidence |-> 88, timestamp |-> 1,
                   source |-> "opencv"],
                  [gesture_type |-> "handover", confidence |-> 92, timestamp |-> 2,
                   source |-> "synthetic"]}]

\* a sample is encoded as a feature vector
EncodeSampleCall ==
  /\ input # Null /\ output = Null
  /\ input.kind = "sample"
  /\ output' = EncodeSample(input.sample)
  /\ UNCHANGED input
  /\ UNCHANGED otherThanEngine

RECURSIVE CountTransitions(_)
\* the number of consecutive samples whose gesture types differ
CountTransitions(buf) ==
  IF Len(buf) < 2 THEN 0
  ELSE (IF buf[1].gesture_type # buf[2].gesture_type THEN 1 ELSE 0)
         + CountTransitions(Tail(buf))

RECURSIVE CountLowConfidence(_)
\* the number of samples with confidence < 0.7
CountLowConfidence(buf) ==
  IF buf = <<>> THEN 0
  ELSE (IF buf[1].confidence < 70 THEN 1 ELSE 0) + CountLowConfidence(Tail(buf))

\* Faulty variant, for sensitivity checks: a transition rate of exactly 0.5 is
\* flagged.
RapidChangesInclusive(buf) == 2 * CountTransitions(buf) >= Len(buf) - 1

\* rapid changes: the fraction of consecutive-sample transitions exceeds 0.5
RapidChanges(buf) == 2 * CountTransitions(buf) > Len(buf) - 1

\* low confidence: the fraction of samples below 0.7 exceeds 0.3
LowConfidence(buf) == 10 * CountLowConfidence(buf) > 3 * Len(buf)

\* the sequence path: InsufficientData below ten samples, else the flags of
\* the rapid-changes and low-confidence checks (the erratic-movement and
\* unusual-pattern checks are independent of these two)
AnalyzeSequence(buf) ==
  IF Len(buf) < MinSamples
  THEN [error |-> "InsufficientData", anomalies |-> {}, gestures_analyzed |-> 0]
  ELSE [error |-> "none",
        anomalies |-> {a \in {"rapid_changes", "low_confidence"} :
                         \/ a = "rapid_changes" /\ RapidChanges(buf)
                         \/ a = "low_confidence" /\ LowConfidence(buf)},
        gestures_analyzed |-> Len(buf)]

\* A buffer of n samples of the webcam component: the first k + 1 alternate
\* between stop and proceed (k transitions), the rest repeat; the first c
\* have a confidence just below 0.7, the rest exactly 0.7.
ScriptedBuffer(n, k, c) ==
  [i \in 1..n |->
     NewGesture(IF Min(i, k + 1) % 2 = 1 THEN "Open_Palm" ELSE "Thumb_Up",
                IF i <= c THEN 69 ELSE 70, <<>>, i)]

\* The bodies POST /gestures/analyze receives: the client posts no buffer of
\* fewer than ten samples.
BufferInputs ==
  {[kind |-> "buffer", samples |-> ScriptedBuffer(n, k, c)] :
     n \in MinSamples..MaxBufferLen, k \in 0..(MaxBufferLen - 1), c \in 0..MaxBufferLen}

\* a buffer is analysed
AnalyzeSequenceCall ==
  /\ input # Null /\ output = Null
  /\ input.kind = "buffer"
  /\ output' = AnalyzeSequence(input.samples)
  /\ UNCHANGED input
  /\ UNCHANGED otherThanEngine

(***************************************************************************)
(* WebcamGesture and LiveDetection: the functions of the detection         *)
(* pipeline, each applied to an argument chosen beforehand.  The arguments *)
(* are the values these functions themselves build from what the           *)
(* classifier and the server return.                                       *)
(***************************************************************************)
\* The call of detectGestures on frame t of video v in state s, by a callback
\* of a streaming render, the recogniser loaded and the video ready.
CallOn(s, v, t, landmarker) ==
  [recognizer |-> TRUE, landmarker |-> landmarker, isStreaming |-> TRUE, ready |-> TRUE,
   frame |-> Frame(v, t), now |-> t,
   currentGesture |-> s.currentGesture, confidence |-> s.confidence,
   gestureHistory |-> s.gestureHistory, latestGesture |-> s.latestGesture,
   robotState |-> s.robotState]

RECURSIVE StateAfter(_, _, _)
\* The state after detectGestures has run on frames 0 .. t-1 of video v,
\* starting from the state of a page that has just mounted; once a render has
\* thrown, no further call is made.
StateAfter(v, t, landmarker) ==
  IF t = 0
  THEN [scheduled |-> FALSE, processed |-> FALSE, throws |-> FALSE,
        currentGesture |-> "null", confidence |-> 0, gestureHistory |-> <<>>,
        latestGesture |-> Null, robotState |-> "idle"]
  ELSE LET s == StateAfter(v, t - 1, landmarker)
       IN IF s.throws THEN s ELSE DetectGesturesBody(CallOn(s, v, t - 1, landmarker))

\* detectGestures on the next frame of a video, after the frames before it
DetectInputs ==
  {[kind |-> "frame", video |-> a[1], frames |-> a[2], landmarker |-> a[3],
    call |-> CallOn(StateAfter(a[1], a[2], a[3]), a[1], a[2], a[3])] :
     a \in {b \in Videos \X (0..(MaxFrames - 1)) \X BOOLEAN :
              ~StateAfter(b[1], b[2], b[3]).throws}}

\* a frame is processed
DetectGesturesCall ==
  /\ input # Null /\ output = Null
  /\ input.kind = "frame"
  /\ output' = DetectGesturesBody(input.call)
  /\ UNCHANGED input
  /\ UNCHANGED otherThanEngine

\* the buffers the Analyze via ESN button is rendered over
HistoryInputs ==
  {[kind |-> "history", gestureHistory |-> StateAfter(a[1], a[2], TRUE).gestureHistory] :
     a \in {b \in Videos \X (0..MaxAnalyzeFrames) : ~StateAfter(b[1], b[2], TRUE).throws}}

\* Analyze via ESN over a buffer: a disabled button takes no click; a click
\* runs analyzeGestureHistory up to the await
AnalyzeGestureHistoryCall ==
  /\ input # Null /\ output = Null
  /\ input.kind = "history"
  /\ output' = IF AnalyzeDisabled(input.gestureHistory)
               THEN [clicked |-> FALSE, toast |-> NoToast, request |-> Null]
               ELSE [clicked |-> TRUE,
                     toast |-> AnalyzeGestureHistoryBody(input.gestureHistory).toast,
                     request |-> AnalyzeGestureHistoryBody(input.gestureHistory).request]
  /\ UNCHANGED input
  /\ UNCHANGED otherThanEngine

\* the risk levels an analysis response carries
RiskInputs == [kind : {"risk"}, risk_level : RiskLevels]

\* an analysis response is shown: the toast of analyzeGestureHistory and the
\* status of the Risk Assessment card
ShowRiskCall ==
  /\ input # Null /\ output = Null
  /\ input.kind = "risk"
  /\ output' = [toast |-> ToastKind(input.risk_level), card |-> CardStatus(input.risk_level)]
  /\ UNCHANGED input
  /\ UNCHANGED otherThanEngine

(***************************************************************************)
(* DataUpload: uploadFile.  A file is its name, a sequence of characters,  *)
(* and the MIME type the browser reports for it.                           *)
(***************************************************************************)
validTypes == {"text/csv", "application/json"}
validExtensions == {<<".", "c", "s", "v">>, <<".", "j", "s", "o", "n">>}

\* String.prototype.toLowerCase on a string of ASCII characters: every
\* upper-case letter becomes its lower-case form, any other character stays.
ToLowerCase(s) ==
  LET UpperCase ==
        <<"A", "B", "C", "D", "E", "F", "G", "H", "I", "J", "K", "L", "M",
          "N", "O", "P", "Q", "R", "S", "T", "U", "V", "W", "X", "Y", "Z">>
      LowerCase ==
        <<"a", "b", "c", "d", "e", "f", "g", "h", "i", "j", "k", "l", "m",
          "n", "o", "p", "q", "r", "s", "t", "u", "v", "w", "x", "y", "z">>
  IN [i \in 1..Len(s) |->
        IF \E k \in 1..Len(UpperCase) : UpperCase[k] = s[i]
        THEN LowerCase[CHOOSE k \in 1..Len(UpperCase) : UpperCase[k] = s[i]]
        ELSE s[i]]

\* Faulty variant, for sensitivity checks: includes(ext) in place of endsWith(ext).
Includes(s, ext) ==
  \E i \in 1..Len(s) :
    i + Len(ext) - 1 <= Len(s) /\ SubSeq(s, i, i + Len(ext) - 1) = ext

\* String.prototype.endsWith
EndsWith(s, ext) ==
  Len(ext) <= Len(s) /\ SubSeq(s, Len(s) - Len(ext) + 1, Len(s)) = ext

\* validExtensions.some(ext => file.name.toLowerCase().endsWith(ext))
hasValidExtension(file) ==
  \E ext \in validExtensions : EndsWith(ToLowerCase(file.name), ext)

\* !validTypes.includes(file.type) && !hasValidExtension
Rejected(file) == file.type \notin validTypes /\ ~hasValidExtension(file)

\* The files a user may drop or select.
FileNames ==
  {<<"a", ".", "c", "s", "v">>, <<"A", ".", "J", "S", "O", "N">>,
   <<"B", ".", "C", "S", "V">>, <<"X", ".", "T", "X", "T">>,
   <<"a", ".", "c", "s", "v", ".", "e", "x", "e">>, <<"a", ".", "t", "x", "t">>,
   <<"c", "s", "v">>, <<".", "c", "s", "v">>}
FileTypes == {"text/csv", "application/json", "text/plain", "image/png", ""}
Files == [name : FileNames, type : FileTypes]

InitUpload ==
  /\ uploadedFiles = <<>>
  /\ uploadLoading = FALSE
  /\ posted = <<>>
  /\ uploading = {}
  /\ uploadCalls = <<>>

\* handleDrop / handleFileSelect: uploadFile(files[0]) up to the await
UploadFile ==
  /\ history[Len(history)] = "/data"
  /\ Len(uploadCalls) < MaxUploads
  /\ \E file \in Files :
       IF Rejected(file)
       THEN /\ uploadCalls' = Append(uploadCalls,
                                [file |-> file, toast |-> "Only CSV and JSON files are supported"])
            /\ UNCHANGED <<uploadedFiles, uploadLoading, posted, uploading>>
       ELSE /\ uploadCalls' = Append(uploadCalls, [file |-> file, toast |-> "none"])
            /\ uploadLoading' = TRUE
            /\ posted' = Append(posted, file)
            /\ uploading' = uploading \cup {[post |-> Len(posted) + 1, live |-> TRUE]}
            /\ UNCHANGED uploadedFiles
  /\ UNCHANGED otherThanUpload

\* the POST resolves: setUploadedFiles(prev => [uploadedFile, ...prev]);
\* finally setLoading(false)
UploadSucceeded ==
  /\ \E u \in uploading : LET i == u.post IN
       /\ uploading' = uploading \ {u}
       /\ IF u.live
          THEN /\ uploadedFiles' =
                    <<[name |-> posted[i].name,
                       type |-> IF posted[i].type = "" THEN "application/octet-stream"
                                ELSE posted[i].type,
                       status |-> "success"]>> \o uploadedFiles
               /\ uploadLoading' = FALSE
          ELSE UNCHANGED <<uploadedFiles, uploadLoading>>
  /\ UNCHANGED <<posted, uploadCalls>>
  /\ UNCHANGED otherThanUpload

\* the POST rejects: setUploadedFiles(prev => [failedFile, ...prev]);
\* finally setLoading(false)
UploadFailed ==
  /\ \E u \in uploading : LET i == u.post IN
       /\ uploading' = uploading \ {u}
       /\ IF u.live
          THEN /\ uploadedFiles' =
                    <<[name |-> posted[i].name, type |-> posted[i].type,
                       status |-> "error"]>> \o uploadedFiles
               /\ uploadLoading' = FALSE
          ELSE UNCHANGED <<uploadedFiles, uploadLoading>>
  /\ UNCHANGED <<posted, uploadCalls>>
  /\ UNCHANGED otherThanUpload

(***************************************************************************)
(* Settings: the Data & Refresh card; and the time that passes on the      *)
(* Dashboard.                                                              *)
(***************************************************************************)
InitSettings == settings = DefaultSettings

\* the Refresh Interval slider: min 10, max 120, step 10
RefreshSlider == [min |-> 10, max |-> 120, step |-> 10]

\* Auto Refresh switch: updateSetting('autoRefresh', checked)
UpdateAutoRefresh ==
  /\ Page = "Settings"
  /\ settings' = [settings EXCEPT !.autoRefresh = ~settings.autoRefresh]
  /\ UNCHANGED otherThanSettings

\* Refresh Interval slider (disabled while autoRefresh is off):
\* updateSetting('refreshInterval', value)
UpdateRefreshInterval ==
  /\ Page = "Settings"
  /\ settings.autoRefresh
  /\ \E v \in SliderMoves(RefreshSlider, settings.refreshInterval) :
       settings' = [settings EXCEPT !.refreshInterval = v]
  /\ UNCHANGED otherThanSettings

\* Ten seconds pass with the Dashboard on screen.  The component sets no
\* timer, so nothing else happens.
Tick ==
  /\ Page = "Dashboard"
  /\ sinceFetch < MaxIdleSeconds
  /\ sinceFetch' = sinceFetch + TickSeconds
  /\ UNCHANGED <<serverUnacked, alerts, dashLoading, fetches, acks, ackDone, requests,
                 dashData>>
  /\ UNCHANGED otherThanDashboard

\* Dashboard: the Refresh Data button
RefreshData == Page = "Dashboard" /\ FetchDashboardData


(***************************************************************************)
(* Specifications.                                                         *)
(***************************************************************************)
\* The application opened at the landing page.
InitApp ==
  /\ InitWebcam /\ video = 1 /\ DashboardNotMounted /\ InitForm /\ InitScenarios /\ InitNav
  /\ InitUpload /\ InitSettings

\* What is the same wherever the application is opened.
InitElsewhere ==
  /\ InitWebcam /\ video = 1 /\ InitForm /\ InitScenarios /\ InitUpload /\ InitSettings
  /\ EngineIdle
  /\ sidebarOpen = FALSE
  /\ predictionsRunning = <<>>
  /\ predLoading = TRUE

\* after Launch Dashboard: the Dashboard has mounted and its
\* fetchDashboardData is in flight
InitAtDashboard ==
  /\ InitElsewhere /\ InitDashboard /\ history = <<"/", "/dashboard">>

\* the application opened at /data
InitAtDataUpload ==
  /\ InitElsewhere /\ DashboardNotMounted /\ history = <<"/data">>

Init == InitApp /\ EngineIdle

\* the application after the first navigation from the landing page to
\* /scenarios: ScenarioBuilder has mounted and its fetchScenarios is in flight
InitAtScenarios ==
  /\ InitWebcam /\ video = 1 /\ DashboardNotMounted /\ InitForm
  /\ scenarios = <<>>
  /\ scenLoading = TRUE
  /\ scenMount = 1
  /\ scenFetches = {1}
  /\ deletes = {}
  /\ runningPrediction = 0
  /\ serverScenarios = InitialScenarios
  /\ serverPredicted = {}
  /\ fetchedIds = {}
  /\ createdOk = {}
  /\ deletedOk = {}
  /\ history = <<"/", "/scenarios">>
  /\ sidebarOpen = FALSE
  /\ predictionsRunning = <<>>
  /\ predLoading = TRUE
  /\ EngineIdle /\ InitUpload /\ InitSettings

\* The WebcamGesture component.  Every call of detectGestures is the one the
\* onloadeddata handler makes, no animation-frame callback is ever scheduled
\* and the buffer stays empty (WiredLoopNeverStarts): the AnimationFrame step,
\* the click on Analyze via ESN and the answers to an analysis request never
\* become enabled, and are no steps of this specification.
WebcamNext ==
  \/ InitializeMediaPipe
  \/ StartCamera
  \/ StartCameraResolved
  \/ StartCameraRejected
  \/ LoadedData
  \/ StopCamera
  \/ Unmount
  \/ ClearHistory

Next == WebcamNext

Spec == Init /\ [][Next]_vars

\* the calls of the detection pipeline's functions, each on a chosen argument
GestureInputs == DetectInputs \cup HistoryInputs \cup RiskInputs

InitGestures == InitApp /\ input \in GestureInputs /\ output = Null

GesturesNext ==
  \/ DetectGesturesCall
  \/ AnalyzeGestureHistoryCall
  \/ ShowRiskCall

SpecGestures == InitGestures /\ [][GesturesNext]_vars

DashboardNext ==
  \/ FetchDashboardData
  \/ ServeAlerts
  \/ ServeFailure
  \/ FetchSucceeded
  \/ FetchFailed
  \/ AcknowledgeAlert
  \/ ServeAcknowledge
  \/ AcknowledgeSucceeded
  \/ AcknowledgeFailed

SpecDashboard == InitAtDashboard /\ [][DashboardNext]_vars

FormNext ==
  \/ OpenCreateDialog
  \/ DismissDialog
  \/ ApplyPreset
  \/ TypeName
  \/ TypeDescription
  \/ SelectTaskType
  \/ MoveSlider
  \/ CancelCreate
  \/ CreateScenario
  \/ CreateSucceeded
  \/ CreateFailed
  \/ FetchScenariosSucceeded
  \/ FetchScenariosFailed

SpecForm == InitAtScenarios /\ [][FormNext]_vars

\* The scenario list: presets, creates, deletes, predictions, and the way
\* back from the predictions page.
ScenariosNext ==
  \/ FetchScenariosSucceeded
  \/ FetchScenariosFailed
  \/ ApplyPreset
  \/ CancelCreate
  \/ CreateScenario
  \/ CreateSucceeded
  \/ CreateFailed
  \/ DeleteScenario
  \/ DeleteSucceeded
  \/ DeleteFailed
  \/ RunPredictionAlone
  \/ PredictionCompleted
  \/ PredictionFailed
  \/ FetchPredictionsSettled
  \/ PredictionsToScenarios

SpecScenarios == InitAtScenarios /\ [][ScenariosNext]_vars

NavNext ==
  \/ LaunchDashboard
  \/ TryLiveDetection
  \/ LandingCreateScenario
  \/ SidebarLink
  \/ ToggleSidebar
  \/ DashboardQuickAction
  \/ ServeAlerts
  \/ FetchSucceeded
  \/ FetchPredictionsSettled
  \/ RefreshPredictions
  \/ PredictionsToScenarios
  \/ RunPredictionAlone
  \/ PredictionCompleted
  \/ PredictionFailed
  \/ BrowserBack
  \/ FetchScenariosSucceeded
  \/ FetchScenariosFailed

SpecNav == Init /\ [][NavNext]_vars

\* the calls of the scoring engine and the encoder, each on a chosen argument
EngineInputs ==
  [kind : {"score"}, score : Scores] \cup ScenarioInputs \cup SampleInputs \cup BufferInputs

InitEngine == InitApp /\ input \in EngineInputs /\ output = Null

EngineNext ==
  \/ BucketScore
  \/ ScoreScenarioCall
  \/ EncodeSampleCall
  \/ AnalyzeSequenceCall

SpecEngine == InitEngine /\ [][EngineNext]_vars

UploadNext ==
  \/ UploadFile
  \/ UploadSucceeded
  \/ UploadFailed

SpecUpload == InitAtDataUpload /\ [][UploadNext]_vars

\* the ScenarioBuilder page just mounted, two scenarios stored
InitWithTwoScenarios ==
  /\ InitWebcam /\ video = 1 /\ DashboardNotMounted /\ InitForm
  /\ scenarios = <<>>
  /\ scenLoading = TRUE
  /\ scenMount = 1
  /\ scenFetches = {1}
  /\ deletes = {}
  /\ runningPrediction = 0
  /\ serverScenarios = <<StoredScenario(1), StoredScenario(2)>>
  /\ serverPredicted = {}
  /\ fetchedIds = {}
  /\ createdOk = {}
  /\ deletedOk = {}
  /\ history = <<"/", "/scenarios">>
  /\ sidebarOpen = FALSE
  /\ predictionsRunning = <<>>
  /\ predLoading = TRUE
  /\ EngineIdle /\ InitUpload /\ InitSettings

PredictionsNext ==
  \/ FetchScenariosSucceeded
  \/ FetchScenariosFailed
  \/ RunPredictionOverlapping
  \/ PredictionCompleted
  \/ PredictionFailed
  \/ FetchPredictionsSettled
  \/ PredictionsToScenarios

SpecPredictions == InitWithTwoScenarios /\ [][PredictionsNext]_vars

\* the Dashboard or the Settings page, just mounted
InitAtDashboardOrSettings ==
  /\ InitElsewhere
  /\ \/ InitDashboard /\ history = <<"/", "/dashboard">>
     \/ DashboardNotMounted /\ history = <<"/settings">>

RefreshNext ==
  \/ Tick
  \/ RefreshData
  \/ ServeAlerts
  \/ ServeFailure
  \/ FetchSucceeded
  \/ FetchFailed
  \/ UpdateAutoRefresh
  \/ UpdateRefreshInterval

SpecRefresh == InitAtDashboardOrSettings /\ [][RefreshNext]_vars


(***************************************************************************)
(* Properties.                                                             *)
(***************************************************************************)
\* In the component no animation-frame callback is ever scheduled, no frame
\* is processed, the buffer stays empty (the Analyze button disabled) and no
\* analysis is ever requested or shown.
WiredLoopNeverStarts ==
  /\ ~animationFrame.pending
  /\ clock = 0
  /\ gestureHistory = <<>>
  /\ AnalyzeDisabled(gestureHistory)
  /\ latestGesture = Null
  /\ robotState = "idle"
  /\ analyses = {}
  /\ riskAnalysis = Null
  /\ riskData = Null

\* C1: Analyze via ESN over a buffer of fewer than 10 samples sends no
\* analysis request (so that no assessment is produced); over a buffer of 10
\* samples or more the buffer is sent for analysis.
C1_MinSamplesForAnalysis ==
  (input # Null /\ input.kind = "history" /\ output # Null) =>
    IF Len(input.gestureHistory) < 10
    THEN output.request = Null
    ELSE output.request = [gestures |-> input.gestureHistory]

\* C1 witness: a buffer of exactly 10 samples has been sent for analysis.
C1_Witness ==
  /\ input # Null /\ input.kind = "history"
  /\ Len(input.gestureHistory) = 10
  /\ output # Null
  /\ output.clicked
  /\ output.request # Null

\* C2: the buffer detectGestures works on and the buffer it leaves never hold
\* more than 50 samples.
C2_BufferBounded ==
  (input # Null /\ input.kind = "frame") =>
    /\ Len(input.call.gestureHistory) <= 50
    /\ output # Null => Len(output.gestureHistory) <= 50

\* C2 witness: a sample has been appended to a full buffer, and the buffer
\* still holds 50.
C2_Witness ==
  /\ input # Null /\ input.kind = "frame"
  /\ output # Null
  /\ input.call.frame.recognized
  /\ Len(input.call.gestureHistory) = 50
  /\ Len(output.gestureHistory) = 50

\* the last min(n, Len(s)) elements of s, in order
LastN(s, n) ==
  LET k == IF Len(s) < n THEN Len(s) ELSE n
  IN [i \in 1..k |-> s[Len(s) - k + i]]

RECURSIVE SamplesOf(_, _, _)
\* the samples of the frames among 0 .. t-1 of video v in which a gesture is
\* recognised, in the order of the frames
SamplesOf(v, t, landmarker) ==
  IF t = 0 THEN <<>>
  ELSE LET f == Frame(v, t - 1)
           before == SamplesOf(v, t - 1, landmarker)
       IN IF f.recognized
          THEN Append(before, NewGesture(f.label, f.score,
                                         IF landmarker THEN f.landmarks ELSE <<>>, t - 1))
          ELSE before

\* C3: the buffer is the last min(n, 50) of the n samples appended so far, in
\* arrival order; a sample appended to a full buffer evicts exactly the oldest
\* one; a frame with no recognised gesture leaves the buffer unchanged.
C3_MostRecentWindow ==
  (input # Null /\ input.kind = "frame" /\ output # Null) =>
    LET prev == input.call.gestureHistory
        out == output.gestureHistory
    IN /\ prev = LastN(SamplesOf(input.video, input.frames, input.landmarker), 50)
       /\ out = LastN(SamplesOf(input.video, input.frames + 1, input.landmarker), 50)
       /\ IF input.call.frame.recognized
          THEN IF Len(prev) = 50
               THEN out = Tail(prev) \o <<output.latestGesture>>
               ELSE out = Append(prev, output.latestGesture)
          ELSE out = prev

\* C3 witness: more than 50 samples had been appended, and the next sample
\* evicted the oldest of the buffer.
C3_Witness ==
  /\ input # Null /\ input.kind = "frame"
  /\ output # Null
  /\ Len(SamplesOf(input.video, input.frames, input.landmarker)) > 50
  /\ input.call.frame.recognized
  /\ output.gestureHistory[50] = output.latestGesture
  /\ output.gestureHistory[1] = input.call.gestureHistory[2]
  /\ output.gestureHistory[1] # input.call.gestureHistory[1]

\* C4: once the camera has started and the video has loaded its first data,
\* the detection loop runs: until the camera is stopped a detectGestures
\* callback is scheduled for the next animation frame.
C4_DetectionLoopRuns ==
  (isStreaming /\ videoLoaded /\ initState \in {"both", "recognizerOnly"})
    => animationFrame.pending

\* C5: an alert whose acknowledge request has succeeded is not in the
\* dashboard's list of unacknowledged alerts.
C5_AcknowledgedStaysGone == \A a \in ackDone : a \notin Range(alerts)

\* The alert type the alerting policy attaches to a risk level.
AlertTypeFor(riskLevel) ==
  IF riskLevel \in {"high", "critical"} THEN "danger"
  ELSE IF riskLevel = "medium" THEN "warning"
  ELSE "none"

\* What a toast kind and a card status signal.
SignalOfToast(kind) ==
  CASE kind = "error" -> "danger" [] kind = "warning" -> "warning" [] OTHER -> "none"

SignalOfCard(status) ==
  CASE status = "danger" -> "danger" [] status = "warning" -> "warning" [] OTHER -> "none"

\* C6: what is signalled for a risk assessment follows its risk_level: high or
\* critical as danger, medium as warning, low as no alert; both in the toast
\* of analyzeGestureHistory and in the status of the Risk Assessment card.
C6_AlertFollowsRiskLevel ==
  (input # Null /\ input.kind = "risk" /\ output # Null) =>
    /\ SignalOfToast(output.toast) = AlertTypeFor(input.risk_level)
    /\ SignalOfCard(output.card) = AlertTypeFor(input.risk_level)

\* C7: every sample detectGestures leaves in the buffer has a gesture_type of
\* the closed vocabulary, whatever label the classifier reports.
C7_GestureTypeInVocabulary ==
  (input # Null /\ input.kind = "frame" /\ output # Null) =>
    \A i \in 1..Len(output.gestureHistory) :
      output.gestureHistory[i].gesture_type \in GestureVocabulary

HasPosition(sample) ==
  /\ DOMAIN sample.position = {"x", "y", "z"}
  /\ sample.position.x \in Int
  /\ sample.position.y \in Int
  /\ sample.position.z \in Int

\* C8: every sample the component builds (buffered, or handed to
\* onGestureDetected) carries a position with x, y and z.
C8_EverySampleHasPosition ==
  (input # Null /\ input.kind = "frame" /\ output # Null) =>
    /\ \A i \in 1..Len(output.gestureHistory) : HasPosition(output.gestureHistory[i])
    /\ output.latestGesture # Null => HasPosition(output.latestGesture)

\* the landmarks available for the frame a sample was built from
LandmarksFor(sample) ==
  IF input.landmarker THEN Frame(input.video, sample.timestamp).landmarks ELSE <<>>

\* C8 witness: the buffer holds a sample of a frame for which no landmark was
\* available, with the default position, and a sample of a frame with one.
C8_Witness ==
  /\ input # Null /\ input.kind = "frame"
  /\ output # Null
  /\ \E i \in 1..Len(output.gestureHistory) :
       /\ LandmarksFor(output.gestureHistory[i]) = <<>>
       /\ output.gestureHistory[i].position = DefaultPosition
  /\ \E i \in 1..Len(output.gestureHistory) :
       LandmarksFor(output.gestureHistory[i]) # <<>>

ValidScenario(body) ==
  /\ body.task_type \in TASK_TYPES
  /\ body.worker_count \in 1..50
  /\ body.robot_count \in 1..20
  /\ body.shift_duration_hours \in 10..120
  /\ body.proximity_threshold_meters \in 5..50
  /\ \E i \in 1..Len(body.name) : body.name[i] \notin Whitespace

\* C9: every body createScenario posts satisfies the Scenario constraints and
\* has a name that is not blank.
C9_SubmittedScenarioValid == \A i \in 1..Len(submitted) : ValidScenario(submitted[i])

\* C9 witness: a scenario built from a preset with a slider moved to its end
\* has been posted.
C9_Witness ==
  /\ submitted # <<>>
  /\ submitted[1].task_type # "assembly_line"
  /\ submitted[1].worker_count \in {1, 50}

\* C10: the location the UI has navigated to is a registered route that
\* renders its page.
C10_NavigationRendersPage == Page # "none"

StatusValues == {"draft", "analyzed"}

\* a stored or shown scenario is analyzed exactly when (stored) or only when
\* (shown) a prediction has been run against it
C11_StatusFollowsPredictions ==
  /\ \A i \in 1..Len(serverScenarios) :
       /\ serverScenarios[i].status \in StatusValues
       /\ serverScenarios[i].status = "analyzed" <=> serverScenarios[i].id \in serverPredicted
  /\ \A i \in 1..Len(scenarios) :
       /\ scenarios[i].status \in StatusValues
       /\ scenarios[i].status = "analyzed" => scenarios[i].id \in serverPredicted

\* a scenario enters the store as draft, and an analyzed scenario that is
\* still stored is still analyzed
C11_NeverReverts ==
  /\ \A i \in 1..Len(serverScenarios') :
       serverScenarios'[i].id \notin IdsOf(serverScenarios) =>
         serverScenarios'[i].status = "draft"
  /\ \A i \in 1..Len(serverScenarios) : \A j \in 1..Len(serverScenarios') :
       (serverScenarios[i].id = serverScenarios'[j].id
          /\ serverScenarios[i].status = "analyzed")
         => serverScenarios'[j].status = "analyzed"

\* C11: a scenario's status is draft from creation until a prediction has been
\* run against it, is analyzed only after at least one prediction has been run
\* against it, and never reverts to draft.
C11_ScenarioStatus == []C11_StatusFollowsPredictions /\ [][C11_NeverReverts]_vars

\* C11 witness: a scenario created in this run is shown as analyzed, after a
\* prediction was run against it, next to one that is still draft.
C11_Witness ==
  /\ ScenarioBuilderShown
  /\ \E i \in 1..Len(scenarios) :
       /\ scenarios[i].id \in createdOk \cup {Len(InitialScenarios) + 1}
       /\ scenarios[i].status = "analyzed"
  /\ \E i \in 1..Len(scenarios) : scenarios[i].status = "draft"

LevelRank(level) ==
  CASE level = "low" -> 1 [] level = "medium" -> 2 [] level = "high" -> 3
    [] level = "critical" -> 4

\* C12: risk_level is a monotonic bucketing of overall_risk_score over
\* low < medium < high < critical: no lower score gets a higher level, and a
\* score exactly on a threshold is in the higher bucket (0.3 is medium, 0.55
\* high, 0.8 critical); the Predictions page labels the level it is given.
C12_MonotonicBucketing ==
  (output # Null /\ input.kind = "score") =>
    /\ output.risk_level \in {"low", "medium", "high", "critical"}
    /\ \A lower \in 0..input.score :
         LevelRank(RiskLevelOf(lower)) <= LevelRank(output.risk_level)
    /\ input.score = 30 => output.risk_level = "medium"
    /\ input.score = 29 => output.risk_level = "low"
    /\ input.score = 55 => output.risk_level = "high"
    /\ input.score = 80 => output.risk_level = "critical"
    /\ output.label = CASE output.risk_level = "low" -> "LOW RISK"
                        [] output.risk_level = "medium" -> "MEDIUM RISK"
                        [] output.risk_level = "high" -> "HIGH RISK"
                        [] output.risk_level = "critical" -> "CRITICAL"

\* C12 witness: a score of exactly 0.3 has been bucketed as medium.
C12_Witness ==
  /\ output # Null
  /\ input.kind = "score"
  /\ input.score = 30
  /\ output.risk_level = "medium"

HighRiskTasks == {"material_handling", "collaborative_work"}
LowRiskTasks == {"assembly_line", "quality_check"}

\* C13: with worker_count, robot_count, shift_duration_hours and
\* proximity_threshold_meters equal, material_handling and collaborative_work
\* score at least as high as assembly_line and quality_check.
C13_TaskTypeOrdering ==
  (output # Null /\ input.kind = "scenario") =>
    /\ input.task_type \in HighRiskTasks =>
         \A t \in LowRiskTasks :
           output.overall_risk_score >= ScoreScenario([input EXCEPT !.task_type = t])
    /\ input.task_type \in LowRiskTasks =>
         \A t \in HighRiskTasks :
           output.overall_risk_score <= ScoreScenario([input EXCEPT !.task_type = t])

\* C13 witness: a material_handling scenario has been scored below the clamp,
\* strictly above the same scenario as an assembly line.
C13_Witness ==
  /\ output # Null
  /\ input.kind = "scenario"
  /\ input.task_type = "material_handling"
  /\ output.overall_risk_score < 100
  /\ output.overall_risk_score >
       ScoreScenario([input EXCEPT !.task_type = "assembly_line"])

\* the consecutive pairs of a buffer whose gesture types differ
TransitionsIn(buf) ==
  {i \in 1..(Len(buf) - 1) : buf[i].gesture_type # buf[i + 1].gesture_type}

\* the samples of a buffer with confidence below 0.7
LowConfidenceIn(buf) == {i \in 1..Len(buf) : buf[i].confidence < 70}

\* C14: over a buffer of at least 10 samples, rapid changes is flagged exactly
\* when the fraction of consecutive-sample transitions exceeds 0.5, and low
\* confidence exactly when the fraction of samples with confidence < 0.7
\* exceeds 0.3.
C14_AnomalyFlags ==
  (output # Null /\ input.kind = "buffer" /\ Len(input.samples) >= 10) =>
    /\ output.error = "none"
    /\ "rapid_changes" \in output.anomalies
         <=> 2 * Cardinality(TransitionsIn(input.samples)) > Len(input.samples) - 1
    /\ "low_confidence" \in output.anomalies
         <=> 10 * Cardinality(LowConfidenceIn(input.samples)) > 3 * Len(input.samples)

\* C14 witness: 11 samples with 5 transitions (a rate of exactly 0.5) and 4
\* samples below 0.7 have been analysed: low confidence flagged, rapid
\* changes not.
C14_Witness ==
  /\ output # Null
  /\ input.kind = "buffer"
  /\ Len(input.samples) = 11
  /\ Cardinality(TransitionsIn(input.samples)) = 5
  /\ Cardinality(LowConfidenceIn(input.samples)) = 4
  /\ output.anomalies = {"low_confidence"}

CanonicalVocabulary ==
  {"stop", "proceed", "slow_down", "handover", "point", "wave", "emergency"}

\* C15 as stated: encodeSample maps every gesture sample to a vector of
\* length 10: a 7-wide one-hot over (stop, proceed, slow_down, handover, point,
\* wave, emergency) with exactly one 1 for a label of the vocabulary and all
\* zeros for unknown or any unrecognized label, then confidence, position.x
\* and position.y.  A sample without a position is refused, so this fails.
C15_EverySampleEncoded ==
  (output # Null /\ input.kind = "sample") =>
    LET v == output.vector
        s == input.sample
        ones == {i \in 1..7 : v[i] = 1}
    IN /\ output.error = "none"
       /\ Len(v) = 10
       /\ \A i \in 1..7 : v[i] \in {0, 1}
       /\ s.gesture_type \in CanonicalVocabulary =>
            /\ Cardinality(ones) = 1
            /\ \A i \in ones :
                 s.gesture_type =
                   <<"stop", "proceed", "slow_down", "handover", "point", "wave",
                     "emergency">>[i]
       /\ s.gesture_type \notin CanonicalVocabulary => ones = {}
       /\ v[8] = s.confidence
       /\ v[9] = s.position.x
       /\ v[10] = s.position.y

\* C15, amended: encodeSample maps every gesture sample that has a position
\* to a vector of length 10: a 7-wide one-hot over (stop, proceed, slow_down,
\* handover, point, wave, emergency) with exactly one 1 for a label of the
\* vocabulary and all zeros for unknown or any unrecognized label, then
\* confidence, position.x and position.y; a sample without a position is
\* refused with InvalidInput and gets no vector.  The one-hot part of each of
\* the seven labels has its single 1 at the label's slot.
C15_EncodedVector ==
  /\ \A k \in 1..7 :
       OneHot(<<"stop", "proceed", "slow_down", "handover", "point", "wave",
                "emergency">>[k]) = [i \in 1..7 |-> IF i = k THEN 1 ELSE 0]
  /\ (output # Null /\ input.kind = "sample") =>
       LET v == output.vector
           s == input.sample
           ones == {i \in 1..7 : v[i] = 1}
       IN IF "position" \in DOMAIN s
          THEN /\ output.error = "none"
               /\ Len(v) = 10
               /\ \A i \in 1..7 : v[i] \in {0, 1}
               /\ s.gesture_type \in CanonicalVocabulary =>
                    /\ Cardinality(ones) = 1
                    /\ \A i \in ones :
                         s.gesture_type =
                           <<"stop", "proceed", "slow_down", "handover", "point",
                             "wave", "emergency">>[i]
               /\ s.gesture_type \notin CanonicalVocabulary => ones = {}
               /\ v[8] = s.confidence
               /\ v[9] = s.position.x
               /\ v[10] = s.position.y
          ELSE /\ output.error = "InvalidInput"
               /\ v = <<>>

\* C15 witness: a wave of the webcam component, with its wrist position, has
\* been encoded with a 1 in the sixth slot only.
C15_Witness ==
  /\ output # Null
  /\ input.kind = "sample"
  /\ input.sample.gesture_type = "wave"
  /\ input.sample.position # DefaultPosition
  /\ output.error = "none"
  /\ output.vector[6] = 1
  /\ \A i \in (1..7) \ {6} : output.vector[i] = 0
  /\ output.vector[9] = input.sample.position.x

RECURSIVE LastDot(_)
\* the index of the last "." of a name, 0 when it has none
LastDot(name) ==
  IF name = <<>> THEN 0
  ELSE IF name[Len(name)] = "." THEN Len(name)
  ELSE LastDot(SubSeq(name, 1, Len(name) - 1))

\* the extension of a file name, from its last dot
Extension(name) ==
  IF LastDot(name) = 0 THEN <<>> ELSE SubSeq(name, LastDot(name), Len(name))

\* a CSV or JSON file: by its MIME type, or by its extension in any case
IsCsvOrJson(file) ==
  \/ file.type \in {"text/csv", "application/json"}
  \/ Extension(file.name) \in
       {<<".", "c", "s", "v">>, <<".", "C", "S", "V">>,
        <<".", "j", "s", "o", "n">>, <<".", "J", "S", "O", "N">>}

C16_OnlyCsvOrJsonPosted == \A i \in 1..Len(posted) : IsCsvOrJson(posted[i])

C16_Step ==
  (Len(uploadCalls') > Len(uploadCalls)) =>
    LET file == uploadCalls'[Len(uploadCalls')].file
    IN IF IsCsvOrJson(file)
       THEN posted' = Append(posted, file)
       ELSE /\ posted' = posted
            /\ uploading' = uploading
            /\ uploadedFiles' = uploadedFiles
            /\ uploadLoading' = uploadLoading

\* C16: uploadFile sends an upload request only for a CSV or JSON file (one by
\* its MIME type or by its extension); a file that is rejected causes no
\* request, adds no entry to the upload history and leaves the loading flag
\* as it is.
C16_OnlyCsvOrJsonUploaded == []C16_OnlyCsvOrJsonPosted /\ [][C16_Step]_vars

\* C16 witness: a file has been rejected while an upload was under way, and
\* the loading flag is still set.
C16_Witness ==
  /\ Len(uploadCalls) = 2
  /\ uploadCalls[2].toast # "none"
  /\ ~IsCsvOrJson(uploadCalls[2].file)
  /\ Len(posted) = 1
  /\ uploading = {[post |-> 1, live |-> TRUE]}
  /\ uploadLoading
  /\ uploadedFiles = <<>>

\* the robot state the README's table gives for a gesture type
StateFor(gestureType) ==
  IF gestureType = "stop" THEN "stopped"
  ELSE IF gestureType = "proceed" THEN "moving"
  ELSE IF gestureType = "slow_down" THEN "slowing"
  ELSE IF gestureType = "point" THEN "following"
  ELSE IF gestureType = "wave" THEN "greeting"
  ELSE IF gestureType = "handover" THEN "receiving"
  ELSE "idle"

\* C17: after a detected gesture robotState is the mapping of the gesture's
\* type (stop: stopped, proceed: moving, slow_down: slowing, point:
\* following, wave: greeting, handover: receiving, anything else: idle); it
\* is one of the seven displayable states, and a frame without a gesture
\* leaves it as it was.
C17_RobotStateFollowsGesture ==
  (input # Null /\ input.kind = "frame" /\ output # Null) =>
    /\ input.call.robotState \in RobotStates
    /\ output.robotState \in RobotStates
    /\ IF input.call.frame.recognized
       THEN output.robotState = StateFor(output.latestGesture.gesture_type)
       ELSE output.robotState = input.call.robotState

\* C17 witness: the robot was moving, a gesture of type unknown has been
\* detected, and the robot is idle.
C17_Witness ==
  /\ input # Null /\ input.kind = "frame"
  /\ output # Null
  /\ input.call.frame.recognized
  /\ input.call.robotState = "moving"
  /\ output.latestGesture.gesture_type = "unknown"
  /\ output.robotState = "idle"

\* C18: while autoRefresh is on, the dashboard data is fetched again every
\* refreshInterval seconds: with the Dashboard on screen and autoRefresh on,
\* the last fetch is never older than refreshInterval.
C18_AutoRefreshFetches ==
  (Page = "Dashboard" /\ settings.autoRefresh) => sinceFetch <= settings.refreshInterval

\* C19: under any interleaving of fetch, create and delete, the scenario list
\* shown holds exactly the fetched scenarios plus those created successfully
\* minus those deleted successfully: a deleted scenario never reappears and
\* a created one is never lost.
C19_ListIsFetchedCreatedNotDeleted ==
  ScenarioBuilderShown =>
    IdsOf(scenarios) = (fetchedIds \cup createdOk) \ deletedOk

\* the component is at rest: unmounted, or stopped with no stream attached,
\* and no getUserMedia call is pending
CameraAtRest ==
  /\ mediaRequests = <<>>
  /\ ~webcamMounted \/ (~isStreaming /\ srcObject = 0)

\* C21: no camera track outlives the component: once the component is stopped
\* or unmounted and no getUserMedia call is pending, no track obtained by
\* any startCamera call is still live.
C21_NoTrackOutlivesComponent == CameraAtRest => liveTracks = {}

\* the Predict button of every listed scenario with a request in flight is
\* disabled
PredictDisabledWhileInFlight ==
  ScenarioBuilderShown =>
    \A k \in 1..Len(predictionsRunning) :
      predictionsRunning[k].id \in IdsOf(scenarios) =>
        runningPrediction = predictionsRunning[k].id

\* at most one prediction request per scenario is in flight
OneRequestPerScenario ==
  \A j, k \in 1..Len(predictionsRunning) :
    j # k => predictionsRunning[j].id # predictionsRunning[k].id

\* once every request has settled, runningPrediction is null
SettledMeansNull ==
  (ScenarioBuilderShown /\ predictionsRunning = <<>>) => runningPrediction = 0

\* C22: while a prediction request for a scenario is in flight, that
\* scenario's Predict button is disabled, so at most one prediction request
\* per scenario is in flight at any time, also when predictions for several
\* scenarios are started one after another; once every request has settled,
\* runningPrediction is null.
C22_OnePredictionPerScenario ==
  PredictDisabledWhileInFlight /\ OneRequestPerScenario /\ SettledMeansNull

\* the fetch f settles in this step
Settles(f) == \A g \in fetches' : g.id # f.id

C23_Step ==
  \A f \in fetches :
    Settles(f) =>
      /\ dashLoading' = FALSE
      /\ IF f.failed # {}
         THEN alerts' = alerts /\ dashData' = dashData
         ELSE /\ alerts' = f.snapshot
              /\ dashData'.kpis = f.id
              /\ dashData'.riskData = f.id
              /\ dashData'.errorRates = f.id
              /\ dashData'.symbiosisTrend = f.id

\* C23: dashboard loading is all-or-nothing: when any of the five requests of
\* fetchDashboardData has failed, none of kpis, alerts, riskData, errorRates
\* and symbiosisTrend is changed; when all succeed, all five are replaced
\* together; in both cases loading is false once the fetch has settled.
C23_AllOrNothing == [][C23_Step]_vars

\* C23 witness: the fetch made on mount has failed: nothing was set, and
\* loading is false.
C23_Witness ==
  /\ requests = 1
  /\ fetches = {}
  /\ ~dashLoading
  /\ alerts = <<>>
  /\ serverUnacked # {}
  /\ dashData = NoData

====
